---- MODULE Spec2Model ----
(***************************************************************************)
(* Query builder of Stratoscale/swagger (package query).                   *)
(*                                                                         *)
(* Go strings are modelled as sequences of tokens: "" is <<>>, "name" is   *)
(* <<"name">>, "+name" is <<"+", "name">>, "name = ?" is                   *)
(* <<"name", " = ", "?">>, "a,b" is <<"a", ",", "b">> and "101" is         *)
(* <<"1", "0", "1">>.  String concatenation is \o, a byte index is a token *)
(* index, and the strings package is modelled on tokens.                   *)
(***************************************************************************)
EXTENDS Integers, Sequences, FiniteSets, TLC

VARIABLES config, builder, status, params, pc, q, ret, order, stages, keyExps, calls,
          petStore

vars == <<config, builder, status, params, pc, q, ret, order, stages, keyExps, calls,
          petStore>>

(***************************************************************************)
(* Bounds of the model.                                                    *)
(***************************************************************************)
MaxFields == 2
MaxParams == 2
MaxCalls == 2
MaxPets == 2

(***************************************************************************)
(* package strings / strconv                                               *)
(***************************************************************************)
RECURSIVE Join(_, _)
Join(l, sep) ==
    IF l = <<>> THEN <<>>
    ELSE IF Len(l) = 1 THEN l[1]
    ELSE l[1] \o sep \o Join(Tail(l), sep)

RECURSIVE SplitFrom(_, _, _, _)
SplitFrom(s, sep, cur, acc) ==
    IF s = <<>> THEN Append(acc, cur)
    ELSE IF Head(s) = sep THEN SplitFrom(Tail(s), sep, <<>>, Append(acc, cur))
    ELSE SplitFrom(Tail(s), sep, Append(cur, Head(s)), acc)

Split(s, sep) == SplitFrom(s, sep, <<>>, <<>>)

Contains(s, sep) == \E i \in 1..Len(s) : s[i] = sep

HasPrefix(s, prefix) ==
    /\ Len(prefix) <= Len(s)
    /\ SubSeq(s, 1, Len(prefix)) = prefix

TrimPrefix(s, prefix) ==
    IF HasPrefix(s, prefix) THEN SubSeq(s, Len(prefix) + 1, Len(s)) ELSE s

Digits == {"0", "1", "2", "3", "4", "5", "6", "7", "8", "9"}

DigitVal(c) ==
    CASE c = "0" -> 0 [] c = "1" -> 1 [] c = "2" -> 2 [] c = "3" -> 3
      [] c = "4" -> 4 [] c = "5" -> 5 [] c = "6" -> 6 [] c = "7" -> 7
      [] c = "8" -> 8 [] c = "9" -> 9

RECURSIVE DigitsVal(_, _)
DigitsVal(s, acc) ==
    IF s = <<>> THEN acc ELSE DigitsVal(Tail(s), 10 * acc + DigitVal(Head(s)))

\* strconv.Atoi: an optional sign followed by at least one decimal digit.
Atoi(s) ==
    LET signed == s # <<>> /\ Head(s) \in {"+", "-"}
        body   == IF signed THEN Tail(s) ELSE s
    IN  IF body = <<>> \/ \E i \in 1..Len(body) : body[i] \notin Digits
        THEN [n |-> 0, ok |-> FALSE]
        ELSE [n  |-> IF signed /\ Head(s) = "-" THEN 0 - DigitsVal(body, 0)
                     ELSE DigitsVal(body, 0),
              ok |-> TRUE]

\* strconv.ParseBool accepts exactly these literals.
BoolLiterals ==
    {<<"1">>, <<"t">>, <<"T">>, <<"TRUE">>, <<"true">>, <<"True">>,
     <<"0">>, <<"f">>, <<"F">>, <<"FALSE">>, <<"false">>, <<"False">>}

\* time.Parse(time.RFC3339, s) succeeds on these timestamps of the model.
RFC3339Strings == {<<"2020-01-02T03:04:05Z">>}

(***************************************************************************)
(* config.go                                                               *)
(***************************************************************************)
sortTag == <<"sort">>
filterTag == <<"filter">>
paramTag == <<"param">>
detailedTag == <<"detailed">>
splitTag == <<"split">>
searchParam == <<"search">>
opEqual == <<"eq">>
opNotEqual == <<"neq">>
opLike == <<"like">>
opLessThan == <<"lt">>
opGreaterThan == <<"gt">>
opLessThanOrEqual == <<"lte">>
opGreaterThanOrEqual == <<"gte">>


\* Faulty variant of sortDirections: the two directions exchanged.
sortDirectionsSwapped == [c \in {"+", "-"} |-> IF c = "+" THEN <<"desc">> ELSE <<"asc">>]

sortDirections == [c \in {"+", "-"} |-> IF c = "+" THEN <<"asc">> ELSE <<"desc">>]

defaultString(s, v) == IF s = <<>> THEN v ELSE s

\* Faulty variant of defaultInt: a zero value is left as it is.
defaultIntKeepZero(i, v) == i

defaultInt(i, v) == IF i = 0 THEN v ELSE i

\* Faulty variant of defaults: a missing Model is not reported.
defaultsNoModelCheck(c) ==
    [c |-> [c EXCEPT !.TagName = defaultString(@, <<"query">>),
                     !.Separator = defaultString(@, <<"_">>),
                     !.SortParam = defaultString(@, <<"sort">>),
                     !.LimitParam = defaultString(@, <<"limit">>),
                     !.OffsetParam = defaultString(@, <<"offset">>),
                     !.SearchOperator = defaultString(@, <<"AND">>),
                     !.DefaultLimit = defaultInt(@, 25),
                     !.LimitMaxValue = defaultInt(@, 100)],
     err |-> FALSE]

defaults(c) ==
    IF c.Model.nil
    THEN [c |-> c, err |-> TRUE]
    ELSE [c |-> [c EXCEPT !.TagName = defaultString(@, <<"query">>),
                          !.Separator = defaultString(@, <<"_">>),
                          !.SortParam = defaultString(@, <<"sort">>),
                          !.LimitParam = defaultString(@, <<"limit">>),
                          !.OffsetParam = defaultString(@, <<"offset">>),
                          !.SearchOperator = defaultString(@, <<"AND">>),
                          !.DefaultLimit = defaultInt(@, 25),
                          !.LimitMaxValue = defaultInt(@, 100)],
          err |-> FALSE]

(***************************************************************************)
(* The model definition: a struct is a sequence of fields.  A field has a  *)
(* Go name, a value type, its struct tags (tag key -> tag string) and, for *)
(* an embedded struct, the fields of that struct.                          *)
(***************************************************************************)
Field(name, type, queryTag, gormTag) ==
    [Name |-> name, Type |-> type, Embedded |-> FALSE, Fields |-> <<>>,
     Tags |-> (<<"query">> :> queryTag) @@ (<<"gorm">> :> gormTag)]

EmbeddedField(name, fields) ==
    [Name |-> name, Type |-> "struct", Embedded |-> TRUE, Fields |-> fields,
     Tags |-> (<<"query">> :> <<>>) @@ (<<"gorm">> :> <<>>)]

\* structs.Field.Tag: the tag string under the key, "" when there is none.
Tag(field, key) == IF key \in DOMAIN field.Tags THEN field.Tags[key] ELSE <<>>

\* gorm.ToDBName: the snake-cased column of a Go field name.
ToDBName(name) ==
    CASE name = "Name" -> <<"name">>
      [] name = "Status" -> <<"status">>
      [] name = "Age" -> <<"age">>
      [] name = "Year" -> <<"year">>
      [] name = "Dummy" -> <<"dummy">>
      [] name = "CreatedAt" -> <<"created_at">>
      [] name = "Tags" -> <<"tags">>
      [] name = "Flag" -> <<"flag">>
      [] name = "EnumVal" -> <<"enum_val">>
      [] name = "Price" -> <<"price">>
      [] name = "Owner" -> <<"owner">>
      [] name = "ID" -> <<"id">>
      [] name = "UpdatedAt" -> <<"updated_at">>
      [] name = "Nick" -> <<"nick">>
      [] name = "Label" -> <<"label">>
      [] name = "Rev" -> <<"rev">>
      [] name = "Note" -> <<"note">>

\* Value types of the model's fields, by the branch of parseField's type
\* switch that takes them.
StringTypes == {"string", "*string"}
IntTypes == {"int", "*int"}
Int64Types == {"int64", "*int64"}
BoolTypes == {"bool", "*bool"}
\* reflect.Type.ConvertibleTo(string), ConvertibleTo(*string)
ConvertibleToString == {"MyEnum", "*MyEnum"}
\* reflect.Type.ConvertibleTo([]string)
ConvertibleToStringSlice == {"Tags"}
\* types with a String() method
Stringers == {"Stringer"}
\* types with a Wrap(string) string method
Wrappers == {"Tags"}

(***************************************************************************)
(* builder.go: the schema compiler                                         *)
(***************************************************************************)
nopWrapper == "nopWrapper"

\* WrapFn.Wrap: nopWrapper, or the Wrap method of the field's type
\* (Tags.Wrap of the package's tests).
Wrap(wrapFn, s) ==
    IF wrapFn = nopWrapper THEN s
    ELSE <<"(name IN (SELECT DISTINCT tag_name IN tags WHERE ">> \o s \o <<"))">>

EmptyBuilder ==
    [searcher |-> FALSE, sortFields |-> {}, filterFields |-> <<>>,
     selectFields |-> <<>>, panicked |-> FALSE]

contains(l, s) == \E i \in 1..Len(l) : l[i] = s \/ HasPrefix(l[i], s)


\* Faulty variant of hasQueryParam: the "param=" prefix is not trimmed.
hasQueryParamNoTrim(l) ==
    LET hits == {i \in 1..Len(l) : HasPrefix(l[i], paramTag)}
    IN  IF hits = {} THEN [field |-> <<>>, ok |-> FALSE]
        ELSE [field |-> l[CHOOSE j \in hits : \A k \in hits : j <= k], ok |-> TRUE]

hasQueryParam(l) ==
    LET hits == {i \in 1..Len(l) : HasPrefix(l[i], paramTag)}
    IN  IF hits = {} THEN [field |-> <<>>, ok |-> FALSE]
        ELSE LET i == CHOOSE j \in hits : \A k \in hits : j <= k
             IN  [field |-> TrimPrefix(l[i], paramTag \o <<"=">>), ok |-> TRUE]

addFilterField(b, name, format, parse, splitOnComma, wrap) ==
    [b EXCEPT !.filterFields =
        (name :> [exp |-> format, parse |-> parse, wrap |-> wrap,
                  splitOnComma |-> splitOnComma]) @@ @]

addStringField(b, colName, withSep, splitOnComma, wrap) ==
    LET b1 == addFilterField(b, colName, colName \o <<" = ", "?">>, "parseString", splitOnComma, wrap)
        b2 == addFilterField(b1, withSep \o opEqual, colName \o <<" = ", "?">>, "parseString", splitOnComma, wrap)
        b3 == addFilterField(b2, withSep \o opNotEqual, colName \o <<" <> ", "?">>, "parseString", splitOnComma, wrap)
    IN  addFilterField(b3, withSep \o opLike, colName \o <<" LIKE ", "?">>, "parseLikeString", splitOnComma, wrap)

\* Faulty variant of addFilterFieldsForNumericFields: the _lte key gets the
\* template of _lt.
addFilterFieldsForNumericFieldsLteAsLt(b, withSep, colName, parse, splitOnComma) ==
    LET b1 == addFilterField(b, colName, colName \o <<" = ", "?">>, parse, splitOnComma, nopWrapper)
        b2 == addFilterField(b1, withSep \o opEqual, colName \o <<" = ", "?">>, parse, splitOnComma, nopWrapper)
        b3 == addFilterField(b2, withSep \o opNotEqual, colName \o <<" <> ", "?">>, parse, splitOnComma, nopWrapper)
        b4 == addFilterField(b3, withSep \o opLessThan, colName \o <<" < ", "?">>, parse, splitOnComma, nopWrapper)
        b5 == addFilterField(b4, withSep \o opLessThanOrEqual, colName \o <<" < ", "?">>, parse, splitOnComma, nopWrapper)
        b6 == addFilterField(b5, withSep \o opGreaterThan, colName \o <<" > ", "?">>, parse, splitOnComma, nopWrapper)
    IN  addFilterField(b6, withSep \o opGreaterThanOrEqual, colName \o <<" >= ", "?">>, parse, splitOnComma, nopWrapper)

addFilterFieldsForNumericFields(b, withSep, colName, parse, splitOnComma) ==
    LET b1 == addFilterField(b, colName, colName \o <<" = ", "?">>, parse, splitOnComma, nopWrapper)
        b2 == addFilterField(b1, withSep \o opEqual, colName \o <<" = ", "?">>, parse, splitOnComma, nopWrapper)
        b3 == addFilterField(b2, withSep \o opNotEqual, colName \o <<" <> ", "?">>, parse, splitOnComma, nopWrapper)
        b4 == addFilterField(b3, withSep \o opLessThan, colName \o <<" < ", "?">>, parse, splitOnComma, nopWrapper)
        b5 == addFilterField(b4, withSep \o opLessThanOrEqual, colName \o <<" <= ", "?">>, parse, splitOnComma, nopWrapper)
        b6 == addFilterField(b5, withSep \o opGreaterThan, colName \o <<" > ", "?">>, parse, splitOnComma, nopWrapper)
    IN  addFilterField(b6, withSep \o opGreaterThanOrEqual, colName \o <<" >= ", "?">>, parse, splitOnComma, nopWrapper)

addFilterFieldsForBoolFields(b, withSep, colName, parse, splitOnComma) ==
    LET b1 == addFilterField(b, colName, colName \o <<" = ", "?">>, parse, splitOnComma, nopWrapper)
        b2 == addFilterField(b1, withSep \o opEqual, colName \o <<" = ", "?">>, parse, splitOnComma, nopWrapper)
    IN  addFilterField(b2, withSep \o opNotEqual, colName \o <<" <> ", "?">>, parse, splitOnComma, nopWrapper)

ignoreOptions ==
    <<(<<"-">>), (<<"foreignkey">>), (<<"association_foreignkey">>), (<<"many2many">>)>>


\* Faulty variant of appendToSelect: the ignoreOptions are not looked at.
appendToSelectNoIgnore(b, c, colName, gormOptions, options) ==
    IF c.OnlySelectNonDetailedFields /\ contains(options, detailedTag)
    THEN b
    ELSE [b EXCEPT !.selectFields = Append(@, colName)]

appendToSelect(b, c, colName, gormOptions, options) ==
    IF \E i \in 1..Len(ignoreOptions) : contains(gormOptions, ignoreOptions[i])
    THEN b
    ELSE IF c.OnlySelectNonDetailedFields /\ contains(options, detailedTag)
    THEN b
    ELSE [b EXCEPT !.selectFields = Append(@, colName)]

\* The filter registration of parseField (the type switch on the field's value).
parseFieldFilter(b, c, field, column, options) ==
    LET splitOnComma == contains(options, splitTag)
        custom  == hasQueryParam(options)
        colName == IF custom.ok THEN custom.field ELSE column
        withSep == colName \o c.Separator
        wrapFn  == IF field.Type \in Wrappers THEN field.Type ELSE nopWrapper
        typ     == field.Type
    IN  CASE typ \in StringTypes -> addStringField(b, colName, withSep, splitOnComma, wrapFn)
          [] typ \in IntTypes -> addFilterFieldsForNumericFields(b, withSep, colName, "parseInt", splitOnComma)
          [] typ \in Int64Types -> addFilterFieldsForNumericFields(b, withSep, colName, "parseInt64", splitOnComma)
          [] typ = "time.Time" -> addFilterFieldsForNumericFields(b, withSep, colName, "parseDate", splitOnComma)
          [] typ = "*time.Time" -> addFilterFieldsForNumericFields(b, withSep, colName, "parseDatePointer", splitOnComma)
          [] typ \in BoolTypes -> addFilterFieldsForBoolFields(b, withSep, colName, "parseBool", splitOnComma)
          [] OTHER ->
                IF typ \in ConvertibleToString \cup ConvertibleToStringSlice \cup Stringers
                THEN addStringField(b, colName, withSep, splitOnComma, wrapFn)
                ELSE [b EXCEPT !.panicked = TRUE]

parseField(b, c, field) ==
    LET colName     == ToDBName(field.Name)
        options     == Split(Tag(field, c.TagName), ",")
        gormOptions == Split(Tag(field, <<"gorm">>), ";")
        b1 == IF c.ExplicitSelect
              THEN appendToSelect(b, c, colName, gormOptions, options) ELSE b
        b2 == IF contains(options, sortTag)
              THEN [b1 EXCEPT !.sortFields = @ \cup {colName}] ELSE b1
    IN  IF ~contains(options, filterTag) THEN b2
        ELSE parseFieldFilter(b2, c, field, colName, options)

\* Faulty variant of initFields: the fields of an embedded struct are pushed
\* on the back of the list.
RECURSIVE initFieldsPushBack(_, _, _, _)
initFieldsPushBack(fields, l, b, c) ==
    IF fields = <<>> \/ b.panicked THEN [l |-> l, b |-> b]
    ELSE LET field == Head(fields)
         IN  IF field.Embedded /\ field.Type = "struct"
             THEN initFieldsPushBack(Tail(fields), l \o <<field.Fields>>, b, c)
             ELSE initFieldsPushBack(Tail(fields), l, parseField(b, c, field), c)

\* The loop over one popped field list: an embedded struct pushes its fields
\* on the front of the list and is skipped, any other field is parsed.  A
\* panic ends the compilation.
RECURSIVE initFields(_, _, _, _)
initFields(fields, l, b, c) ==
    IF fields = <<>> \/ b.panicked THEN [l |-> l, b |-> b]
    ELSE LET field == Head(fields)
         IN  IF field.Embedded /\ field.Type = "struct"
             THEN initFields(Tail(fields), <<field.Fields>> \o l, b, c)
             ELSE initFields(Tail(fields), l, parseField(b, c, field), c)

RECURSIVE initLoop(_, _, _)
initLoop(l, b, c) ==
    IF l = <<>> \/ b.panicked THEN b
    ELSE LET r == initFields(Head(l), Tail(l), b, c)
         IN  initLoop(r.l, r.b, c)

init(b, c) == initLoop(<<c.Model.fields>>, b, c)

(***************************************************************************)
(* The configurations and model definitions the builder is built from.     *)
(***************************************************************************)
NilModel == [nil |-> TRUE, fields |-> <<>>, searcher |-> FALSE]

Struct(fields, searcher) == [nil |-> FALSE, fields |-> fields, searcher |-> searcher]

\* A Config with every option but the Model left at its zero value.
ZeroConfig(model) ==
    [Model |-> model, TagName |-> <<>>, Separator |-> <<>>, IgnoreSort |-> FALSE,
     SortParam |-> <<>>, DefaultSort |-> <<>>, LimitParam |-> <<>>,
     DefaultLimit |-> 0, LimitMaxValue |-> 0, OffsetParam |-> <<>>,
     SearchOperator |-> <<>>, ExplicitSelect |-> FALSE,
     OnlySelectNonDetailedFields |-> FALSE]

FieldUniverse ==
    { Field("Name", "string", <<"sort", ",", "filter">>, <<>>),
      Field("Age", "int64", <<"filter">>, <<>>),
      Field("Tags", "Tags", <<"filter", ",", "param", "=", "tag_name", ",", "split">>,
            <<"many2many", ":", "pet_tags">>),
      Field("Dummy", "int", <<"sort", ",", "filter">>, <<"-">>),
      Field("Year", "int", <<"filter", ",", "detailed">>, <<>>),
      Field("Flag", "*bool", <<"filter", ",", "sort">>, <<>>),
      Field("Owner", "string", <<>>, <<"foreignkey", ":", "OwnerID">>),
      Field("Price", "float64", <<"sort">>, <<>>),
      Field("Price", "float64", <<"filter">>, <<>>),
      Field("CreatedAt", "time.Time", <<"sort", ",", "filter">>, <<>>),
      Field("EnumVal", "MyEnum", <<"filter">>, <<"column", ":", "enum", ";", "association_foreignkey", ":", "UUID">>),
      EmbeddedField("Base",
          <<Field("ID", "int", <<"sort", ",", "filter">>, <<>>),
            Field("Status", "string", <<"sort", ",", "filter", ",", "param", "=", "state">>, <<>>)>>),
      Field("UpdatedAt", "*time.Time", <<"sort", ",", "filter">>, <<>>),
      Field("Nick", "*string", <<"filter">>, <<>>),
      Field("Label", "Stringer", <<"filter">>, <<>>),
      EmbeddedField("Audit",
          <<EmbeddedField("Meta", <<Field("Rev", "int", <<"sort">>, <<>>)>>),
            Field("Note", "string", <<"filter">>, <<>>)>>) }

\* The structs of at most n fields of the universe, with distinct field names.
RECURSIVE Structs(_)
Structs(n) ==
    IF n = 0 THEN {<<>>}
    ELSE LET shorter == Structs(n - 1)
         IN  shorter \cup
             { Append(s, f) : s \in {t \in shorter : Len(t) = n - 1}, f \in FieldUniverse }

DistinctNames(s) == \A i, j \in 1..Len(s) : s[i].Name = s[j].Name => i = j

CompileConfigs ==
    {ZeroConfig(NilModel)} \cup
    { [ZeroConfig(Struct(s, FALSE)) EXCEPT !.ExplicitSelect = sel[1],
                                          !.OnlySelectNonDetailedFields = sel[2]] :
        s \in {t \in Structs(MaxFields) : DistinctNames(t)},
        sel \in {<<FALSE, FALSE>>, <<TRUE, FALSE>>, <<FALSE, TRUE>>} }

\* The model of the package's tests (its fields the requests use).
TestModel ==
    <<Field("Name", "string", <<"sort", ",", "filter">>, <<>>),
      Field("Age", "int64", <<"filter">>, <<>>),
      Field("Year", "int", <<"filter", ",", "detailed">>, <<>>),
      Field("Dummy", "int", <<>>, <<"-">>),
      Field("CreatedAt", "time.Time", <<"sort", ",", "filter">>, <<>>),
      Field("Tags", "Tags", <<"filter", ",", "param", "=", "tag_name", ",", "split">>, <<>>),
      Field("Flag", "bool", <<"filter", ",", "sort">>, <<>>)>>

ParseConfigs ==
    { [ZeroConfig(Struct(TestModel, TRUE)) EXCEPT !.DefaultSort = <<"name", " ", "desc">>],
      [ZeroConfig(Struct(TestModel, TRUE)) EXCEPT !.LimitMaxValue = -1, !.DefaultLimit = 10,
                                                  !.SearchOperator = <<"OR">>],
      [ZeroConfig(Struct(TestModel, FALSE)) EXCEPT !.IgnoreSort = TRUE, !.ExplicitSelect = TRUE,
                                                   !.DefaultSort = <<"name">>],
      [ZeroConfig(Struct(TestModel, FALSE)) EXCEPT !.OnlySelectNonDetailedFields = TRUE,
                                                   !.DefaultLimit = 500],
      ZeroConfig(NilModel) }

(***************************************************************************)
(* DBQuery and the values Parse returns                                    *)
(***************************************************************************)
NoError == [nil |-> TRUE, msg |-> <<>>]

ParseError(msg) == [nil |-> FALSE, msg |-> msg]

ZeroQuery ==
    [Limit |-> 0, Offset |-> 0, Sort |-> <<>>, CondExp |-> <<>>, CondVal |-> <<>>,
     Select |-> <<>>]

\* The pair (*DBQuery, error) a call returns; nil is TRUE for a nil *DBQuery.
NoReturn == [nil |-> TRUE, q |-> ZeroQuery, err |-> NoError]

\* example/internal/pet: New, the empty in-memory store.  data and count are
\* the fields of Pet; created and deleted record the IDs PetCreate returned
\* and PetDelete removed, resp the response of the last handler.
New ==
    [data |-> <<>>, count |-> 0, created |-> {}, deleted |-> {},
     resp |-> [code |-> "none", ID |-> 0, Name |-> ""]]

\* A call of Parse: its position, its arguments, the order its range over
\* b.filterFields visits the keys in, its local q and what it returned.
IdleCall ==
    [pc |-> "idle", params |-> <<>>, order |-> <<>>, q |-> ZeroQuery, ret |-> NoReturn]

(***************************************************************************)
(* NewBuilder                                                              *)
(***************************************************************************)
TypeOK ==
    /\ status \in {"new", "built", "error", "panic"}
    /\ pc \in {"idle", "limit", "offset", "sort", "filter", "search", "done"}

InitWith(configs) ==
    /\ config \in configs
    /\ builder = EmptyBuilder
    /\ status = "new"
    /\ params = <<>>
    /\ pc = "idle"
    /\ q = ZeroQuery
    /\ ret = NoReturn
    /\ order = <<>>
    /\ stages = <<>>
    /\ keyExps = <<>>
    /\ calls = [i \in 1..MaxCalls |-> IdleCall]
    /\ petStore = New

\* NewBuilder(c): (nil, err) without a Model, a panic of init on a filterable
\* field of an unsupported type (the call does not return, the caller holds
\* no Builder), the compiled Builder otherwise.  c is a pointer, so the
\* defaults are written to the caller's Config.
NewBuilder ==
    /\ status = "new"
    /\ LET d == defaults(config)
           c == IF d.c.OnlySelectNonDetailedFields
                THEN [d.c EXCEPT !.ExplicitSelect = TRUE] ELSE d.c
           b == init([EmptyBuilder EXCEPT !.searcher = c.Model.searcher], c)
       IN  IF d.err
           THEN /\ status' = "error"
                /\ UNCHANGED <<config, builder>>
           ELSE /\ config' = c
                /\ builder' = IF b.panicked THEN builder ELSE b
                /\ status' = IF b.panicked THEN "panic" ELSE "built"
    /\ UNCHANGED <<params, pc, q, ret, order, stages, keyExps, calls, petStore>>

InitCompile == InitWith(CompileConfigs)

NextCompile == NewBuilder

SpecCompile == InitCompile /\ [][NextCompile]_vars

(***************************************************************************)
(* builder.go: the request translator                                      *)
(***************************************************************************)
\* fmt's %d of an int
RECURSIVE Itoa(_)
Itoa(n) ==
    IF n < 0 THEN <<"-">> \o Itoa(0 - n)
    ELSE LET d == CHOOSE c \in Digits : DigitVal(c) = n % 10
         IN  IF n < 10 THEN <<d>> ELSE Append(Itoa(n \div 10), d)

\* url.Values.Get: the first value of the key, "" when there is none.
Get(values, key) ==
    IF key \in DOMAIN values /\ Len(values[key]) > 0 THEN values[key][1] ELSE <<>>


\* Faulty variant of returnError: the descriptor built so far is returned with the error.
returnErrorPartial(e) == [nil |-> FALSE, q |-> ZeroQuery, err |-> e]

\* The return statements of Parse.
returnError(e) == [nil |-> TRUE, q |-> ZeroQuery, err |-> e]

returnQuery(query) == [nil |-> FALSE, q |-> query, err |-> NoError]


\* Faulty variant of parseNumber: the maximum itself is rejected.
parseNumberOffByOne(k, v, min, max) ==
    LET a == Atoi(v)
    IN  IF ~a.ok
        THEN [n |-> 0, err |-> ParseError(<<"invalid value('">> \o v \o <<"') for key '">> \o k \o <<"'">>)]
        ELSE IF a.n < min
        THEN [n |-> 0, err |-> ParseError(<<"value for key '">> \o k
                  \o <<"' must be greater than or equal to ">> \o Itoa(min))]
        ELSE IF max # -1 /\ a.n >= max
        THEN [n |-> 0, err |-> ParseError(<<"value for key '">> \o k
                  \o <<"' must be less than or equal to ">> \o Itoa(max))]
        ELSE [n |-> a.n, err |-> NoError]

parseNumber(k, v, min, max) ==
    LET a == Atoi(v)
    IN  IF ~a.ok
        THEN [n |-> 0, err |-> ParseError(<<"invalid value('">> \o v \o <<"') for key '">> \o k \o <<"'">>)]
        ELSE IF a.n < min
        THEN [n |-> 0, err |-> ParseError(<<"value for key '">> \o k
                  \o <<"' must be greater than or equal to ">> \o Itoa(min))]
        ELSE IF max # -1 /\ a.n > max
        THEN [n |-> 0, err |-> ParseError(<<"value for key '">> \o k
                  \o <<"' must be less than or equal to ">> \o Itoa(max))]
        ELSE [n |-> a.n, err |-> NoError]

\* Faulty variant of sortClause: a prefixed token is not looked up in the
\* sort-field set.
sortClauseUncheckedPrefix(b, field) ==
    IF field = <<>>
    THEN [exp |-> <<>>, err |-> ParseError(<<"missing sort parameter">>)]
    ELSE LET prefixed == field[1] \in DOMAIN sortDirections
             orderBy  == IF prefixed THEN sortDirections[field[1]] ELSE <<>>
             name     == IF prefixed THEN Tail(field) ELSE field
         IN  IF ~prefixed /\ name \notin b.sortFields
             THEN [exp |-> <<>>,
                   err |-> ParseError(<<"invalid sort parameter '">> \o name \o <<"'">>)]
             ELSE [exp |-> IF orderBy # <<>> THEN name \o <<" ">> \o orderBy ELSE name,
                   err |-> NoError]

\* One sort token: the clause it yields, or the error.
sortClause(b, field) ==
    IF field = <<>>
    THEN [exp |-> <<>>, err |-> ParseError(<<"missing sort parameter">>)]
    ELSE LET prefixed == field[1] \in DOMAIN sortDirections
             orderBy  == IF prefixed THEN sortDirections[field[1]] ELSE <<>>
             name     == IF prefixed THEN Tail(field) ELSE field
         IN  IF name \notin b.sortFields
             THEN [exp |-> <<>>,
                   err |-> ParseError(<<"invalid sort parameter '">> \o name \o <<"'">>)]
             ELSE [exp |-> IF orderBy # <<>> THEN name \o <<" ">> \o orderBy ELSE name,
                   err |-> NoError]

\* Faulty variant of parseSortFrom: each clause is put in front of the
\* clauses of the tokens before it.
RECURSIVE parseSortFromPrepend(_, _, _)
parseSortFromPrepend(b, fields, sortParams) ==
    IF fields = <<>>
    THEN [exp |-> Join(sortParams, <<", ">>), err |-> NoError]
    ELSE LET r == sortClause(b, Head(fields))
         IN  IF ~r.err.nil THEN [exp |-> <<>>, err |-> r.err]
             ELSE parseSortFromPrepend(b, Tail(fields), <<r.exp>> \o sortParams)

RECURSIVE parseSortFrom(_, _, _)
parseSortFrom(b, fields, sortParams) ==
    IF fields = <<>>
    THEN [exp |-> Join(sortParams, <<", ">>), err |-> NoError]
    ELSE LET r == sortClause(b, Head(fields))
         IN  IF ~r.err.nil THEN [exp |-> <<>>, err |-> r.err]
             ELSE parseSortFrom(b, Tail(fields), Append(sortParams, r.exp))

parseSort(b, fields) == parseSortFrom(b, fields, <<>>)

\* The values bound to placeholders: interface{} holding a string, an int,
\* an int64, a time.Time or a *time.Time.
Value(kind, s, n) == [kind |-> kind, s |-> s, n |-> n]

NilValue == Value("nil", <<>>, 0)

parseInt(s) ==
    IF s = <<>> THEN [v |-> NilValue, ok |-> FALSE]
    ELSE [v |-> Value("int", <<>>, Atoi(s).n), ok |-> Atoi(s).ok]

parseInt64(s) ==
    IF s = <<>> THEN [v |-> NilValue, ok |-> FALSE]
    ELSE [v |-> Value("int64", <<>>, Atoi(s).n), ok |-> Atoi(s).ok]

parseString(s) == [v |-> Value("string", s, 0), ok |-> s # <<>>]

parseLikeString(s) == [v |-> Value("string", <<"%">> \o s \o <<"%">>, 0), ok |-> s # <<>>]

parseDate(s) == [v |-> Value("time.Time", s, 0), ok |-> s \in RFC3339Strings]

parseDatePointer(s) ==
    IF ~parseDate(s).ok THEN [v |-> NilValue, ok |-> FALSE]
    ELSE [v |-> Value("*time.Time", s, 0), ok |-> TRUE]

parseBool(s) ==
    IF s = <<>> \/ s \notin BoolLiterals THEN [v |-> NilValue, ok |-> FALSE]
    ELSE [v |-> Value("string", s, 0), ok |-> TRUE]

\* parseFn: a call of the parser registered for a filter key.
parse(fn, s) ==
    CASE fn = "parseString" -> parseString(s)
      [] fn = "parseLikeString" -> parseLikeString(s)
      [] fn = "parseInt" -> parseInt(s)
      [] fn = "parseInt64" -> parseInt64(s)
      [] fn = "parseDate" -> parseDate(s)
      [] fn = "parseDatePointer" -> parseDatePointer(s)
      [] fn = "parseBool" -> parseBool(s)

\* Faulty variant of splitArgs: the field's split flag is not looked at.
splitArgsAnyField(filter, args) ==
    IF Len(args) = 1 /\ Contains(args[1], ",")
    THEN Split(args[1], ",") ELSE args

\* The arguments of a key: a single argument of a comma-split field is split.
splitArgs(filter, args) ==
    IF filter.splitOnComma /\ Len(args) = 1 /\ Contains(args[1], ",")
    THEN Split(args[1], ",") ELSE args


\* Faulty variant of parseArgs: a parsed value is put in front of filterVal.
RECURSIVE parseArgsPrepend(_, _, _, _)
parseArgsPrepend(filter, args, filterVal, expArgs) ==
    IF args = <<>> THEN [ok |-> TRUE, filterVal |-> filterVal, expArgs |-> expArgs]
    ELSE LET r == parse(filter.parse, Head(args))
         IN  IF ~r.ok THEN [ok |-> FALSE, filterVal |-> filterVal, expArgs |-> expArgs]
             ELSE parseArgsPrepend(filter, Tail(args), <<r.v>> \o filterVal,
                                   Append(expArgs, filter.exp))

\* Faulty variant of parseArgs: a value that does not parse is skipped.
RECURSIVE parseArgsSkipInvalid(_, _, _, _)
parseArgsSkipInvalid(filter, args, filterVal, expArgs) ==
    IF args = <<>> THEN [ok |-> TRUE, filterVal |-> filterVal, expArgs |-> expArgs]
    ELSE LET r == parse(filter.parse, Head(args))
         IN  IF ~r.ok THEN parseArgsSkipInvalid(filter, Tail(args), filterVal, expArgs)
             ELSE parseArgsSkipInvalid(filter, Tail(args), Append(filterVal, r.v),
                                       Append(expArgs, filter.exp))

\* The loop over the arguments of one key: each parsed value is appended to
\* filterVal and the key's template to expArgs; a value that does not parse
\* ends the call.
RECURSIVE parseArgs(_, _, _, _)
parseArgs(filter, args, filterVal, expArgs) ==
    IF args = <<>> THEN [ok |-> TRUE, filterVal |-> filterVal, expArgs |-> expArgs]
    ELSE LET r == parse(filter.parse, Head(args))
         IN  IF ~r.ok THEN [ok |-> FALSE, filterVal |-> filterVal, expArgs |-> expArgs]
             ELSE parseArgs(filter, Tail(args), Append(filterVal, r.v),
                            Append(expArgs, filter.exp))


\* Faulty variant of keyExp: a single argument is parenthesized too.
keyExpAlwaysParens(expArgs) ==
    LET exp == Join(expArgs, <<" OR ">>)
    IN  IF Len(expArgs) > 0 THEN <<"(">> \o exp \o <<")">> ELSE exp

\* The expression of one key before its wrap: "KEY = VAL", or
\* "(KEY = VAL OR KEY = VAL2 ...)" for more than one argument.
keyExp(expArgs) ==
    LET exp == Join(expArgs, <<" OR ">>)
    IN  IF Len(expArgs) > 1 THEN <<"(">> \o exp \o <<")">> ELSE exp


\* Faulty variant of filterKey: a value that does not parse skips the key (continue)
\* instead of ending the call.
filterKeyContinue(b, values, name, acc) ==
    IF name \notin DOMAIN values THEN acc
    ELSE LET filter == b.filterFields[name]
             r == parseArgs(filter, splitArgs(filter, values[name]), acc.filterVal, <<>>)
         IN  IF ~r.ok
             THEN [acc EXCEPT !.filterVal = r.filterVal]
             ELSE [acc EXCEPT !.filterVal = r.filterVal,
                              !.filterExp = Append(@, Wrap(filter.wrap, keyExp(r.expArgs))),
                              !.exps = (name :> keyExp(r.expArgs)) @@ @]

\* Faulty variant of filterKey: the wrap is applied to the OR-joined
\* templates before they are parenthesized.
filterKeyWrapBeforeParens(b, values, name, acc) ==
    IF name \notin DOMAIN values THEN acc
    ELSE LET filter == b.filterFields[name]
             r == parseArgs(filter, splitArgs(filter, values[name]), acc.filterVal, <<>>)
             wrapped == Wrap(filter.wrap, Join(r.expArgs, <<" OR ">>))
         IN  IF ~r.ok
             THEN [acc EXCEPT !.err = ParseError(<<"invalid parameter for key '">> \o name \o <<"'">>)]
             ELSE [acc EXCEPT !.filterVal = r.filterVal,
                              !.filterExp = Append(@, IF Len(r.expArgs) > 1
                                                      THEN <<"(">> \o wrapped \o <<")">>
                                                      ELSE wrapped),
                              !.exps = (name :> keyExp(r.expArgs)) @@ @]

\* One iteration of parseFilter's loop over b.filterFields.
filterKey(b, values, name, acc) ==
    IF name \notin DOMAIN values THEN acc
    ELSE LET filter == b.filterFields[name]
             r == parseArgs(filter, splitArgs(filter, values[name]), acc.filterVal, <<>>)
         IN  IF ~r.ok
             THEN [acc EXCEPT !.err = ParseError(<<"invalid parameter for key '">> \o name \o <<"'">>)]
             ELSE [acc EXCEPT !.filterVal = r.filterVal,
                              !.filterExp = Append(@, Wrap(filter.wrap, keyExp(r.expArgs))),
                              !.exps = (name :> keyExp(r.expArgs)) @@ @]

RECURSIVE parseFilterFrom(_, _, _, _)
parseFilterFrom(b, values, names, acc) ==
    IF names = <<>> \/ ~acc.err.nil THEN acc
    ELSE parseFilterFrom(b, values, Tail(names), filterKey(b, values, Head(names), acc))

\* Faulty variant of parseFilter: a key of the request made of a compiled
\* bare key and an operator that is not registered for it is an error.
parseFilterStrictOperators(b, values, names) ==
    LET r == parseFilterFrom(b, values, names,
                 [filterExp |-> <<>>, filterVal |-> <<>>, err |-> NoError, exps |-> <<>>])
        strange == {k \in DOMAIN values \ DOMAIN b.filterFields :
                       \E f \in DOMAIN b.filterFields : HasPrefix(k, f \o <<"_">>)}
    IN  IF strange # {}
        THEN [exp |-> <<>>, val |-> <<>>, exps |-> r.exps,
              err |-> ParseError(<<"invalid parameter for key '">>
                                     \o (CHOOSE k \in strange : TRUE) \o <<"'">>)]
        ELSE IF ~r.err.nil
        THEN [exp |-> <<>>, val |-> <<>>, err |-> r.err, exps |-> r.exps]
        ELSE [exp |-> Join(r.filterExp, <<" AND ">>), val |-> r.filterVal,
              err |-> NoError, exps |-> r.exps]

\* parseFilter, with the keys of b.filterFields visited in the order names.
parseFilter(b, values, names) ==
    LET r == parseFilterFrom(b, values, names,
                 [filterExp |-> <<>>, filterVal |-> <<>>, err |-> NoError, exps |-> <<>>])
    IN  IF ~r.err.nil
        THEN [exp |-> <<>>, val |-> <<>>, err |-> r.err, exps |-> r.exps]
        ELSE [exp |-> Join(r.filterExp, <<" AND ">>), val |-> r.filterVal,
              err |-> NoError, exps |-> r.exps]

\* Searcher.Search of the model of the package's tests.
Search(term) ==
    [exp  |-> <<"(", "name", " = ", "?", " OR ", "status", " LIKE ", "?", ")">>,
     vals |-> <<Value("string", term, 0), Value("string", <<"%">> \o term \o <<"%">>, 0)>>]

RECURSIVE parseSearchFrom(_, _, _, _)
parseSearchFrom(c, terms, exp, vals) ==
    IF terms = <<>> THEN [exp |-> exp, vals |-> vals]
    ELSE LET t == Search(Head(terms))
             e == exp \o t.exp
         IN  parseSearchFrom(c, Tail(terms),
                 IF Len(terms) # 1 THEN e \o <<" ">> \o c.SearchOperator \o <<" ">> ELSE e,
                 vals \o t.vals)

\* Faulty variant of parseSearch: a single term is parenthesized too.
parseSearchAlwaysParens(c, terms) ==
    LET r == parseSearchFrom(c, terms, IF Len(terms) > 0 THEN <<"(">> ELSE <<>>, <<>>)
    IN  [exp |-> IF Len(terms) > 0 THEN r.exp \o <<")">> ELSE r.exp, vals |-> r.vals]

parseSearch(c, terms) ==
    LET r == parseSearchFrom(c, terms, IF Len(terms) > 1 THEN <<"(">> ELSE <<>>, <<>>)
    IN  [exp |-> IF Len(terms) > 1 THEN r.exp \o <<")">> ELSE r.exp, vals |-> r.vals]

\* DBQuery.And
And(query, exp, vals) ==
    [query EXCEPT !.CondExp = (IF @ # <<>> THEN @ \o <<" AND ">> ELSE @) \o exp,
                  !.CondVal = @ \o vals]

(***************************************************************************)
(* The requests: url.Values with at most MaxParams of these keys, each     *)
(* with one of its value lists.                                            *)
(***************************************************************************)
RequestParams ==
    << [key |-> <<"limit">>,
        vals |-> { <<(<<>>)>>, <<(<<"0">>)>>, <<(<<"1", "0", "0">>)>>, <<(<<"1", "0", "1">>)>>,
                   <<(<<"x">>)>>, <<(<<"-", "1">>)>>, <<(<<"7">>), (<<"x">>)>> }],
       [key |-> <<"offset">>,
        vals |-> { <<(<<>>)>>, <<(<<"5">>)>>, <<(<<"1", "0", "1">>)>>, <<(<<"-", "1">>)>>, <<(<<"x">>)>> }],
       [key |-> <<"sort">>,
        vals |-> { <<>>, <<(<<>>)>>, <<(<<"name">>)>>, <<(<<"+", "name">>)>>, <<(<<"-", "name">>)>>,
                   <<(<<"-", "age">>)>>, <<(<<"name">>), (<<"-", "name">>)>>,
                   <<(<<"+">>)>>, <<(<<"name">>), (<<"age">>)>>, <<(<<"name">>), (<<>>)>>,
                   <<(<<"-", "created_at">>), (<<"+", "name">>)>> }],
       [key |-> <<"search">>,
        vals |-> { <<>>, <<(<<"foo">>)>>, <<(<<"foo">>), (<<"bar">>)>> }],
       [key |-> <<"name">>,
        vals |-> { <<>>, <<(<<"a">>)>>, <<(<<"a">>), (<<"b">>)>>, <<(<<>>)>>, <<(<<"a", ",", "b">>)>> }],
       [key |-> <<"name", "_", "like">>,
        vals |-> { <<(<<"a">>)>> }],
       [key |-> <<"age", "_", "gt">>,
        vals |-> { <<(<<"1", "0">>)>>, <<(<<"x">>)>>, <<(<<"7">>), (<<"9">>)>> }],
       [key |-> <<"tag_name">>,
        vals |-> { <<(<<"a", ",", "b">>)>>, <<(<<"a">>), (<<"b">>)>>, <<(<<"a">>)>>, <<(<<"a", ",">>)>>,
                   <<(<<"a", ",", "b">>), (<<"c">>)>> }],
       [key |-> <<"name", "_", "gt">>,
        vals |-> { <<(<<"a">>)>> }],
       [key |-> <<"tags">>,
        vals |-> { <<(<<"a">>)>> }],
       [key |-> <<"created_at", "_", "gte">>,
        vals |-> { <<(<<"2020-01-02T03:04:05Z">>)>>, <<(<<"2020-01-02">>)>> }],
       [key |-> <<"flag">>,
        vals |-> { <<(<<"true">>)>>, <<(<<"maybe">>)>> }] >>

RECURSIVE RequestsOf(_, _)
RequestsOf(keys, n) ==
    IF keys = <<>> \/ n = 0 THEN {<<>>}
    ELSE RequestsOf(Tail(keys), n) \cup
         { (Head(keys).key :> v) @@ r : v \in Head(keys).vals, r \in RequestsOf(Tail(keys), n - 1) }

Requests == RequestsOf(RequestParams, MaxParams)

\* The orders in which a range over b.filterFields visits the keys.  A key
\* the request does not hold is skipped whenever it is visited, so the orders
\* differ in the keys of the request only: the other keys are visited first.
RECURSIVE SetToSeq(_)
SetToSeq(S) ==
    IF S = {} THEN <<>>
    ELSE LET x == CHOOSE y \in S : TRUE IN <<x>> \o SetToSeq(S \ {x})

OrdersOf(S) ==
    { s \in [1..Cardinality(S) -> S] : \A i, j \in 1..Cardinality(S) : s[i] = s[j] => i = j }

VisitOrders(b, values) ==
    LET present == DOMAIN b.filterFields \cap DOMAIN values
    IN  { SetToSeq(DOMAIN b.filterFields \ present) \o p : p \in OrdersOf(present) }

(***************************************************************************)
(* Builder.Parse, one action per stage of the call                         *)
(***************************************************************************)
AtStage(stage) == status = "built" /\ pc = stage

Fail(stage, e) ==
    /\ ret' = returnError(e)
    /\ pc' = "done"
    /\ stages' = Append(stages, stage)

\* Faulty variant of ParseBegin: the select list is not copied to q.
ParseBeginNoSelect ==
    /\ AtStage("idle")
    /\ \E values \in Requests : params' = values
    /\ q' = [ZeroQuery EXCEPT !.Sort = config.DefaultSort,
                              !.Limit = config.DefaultLimit]
    /\ pc' = "limit"
    /\ UNCHANGED <<petStore, calls, config, builder, status, ret, order, stages, keyExps>>

\* The call and the allocation of q (lines 125-129).
ParseBegin ==
    /\ AtStage("idle")
    /\ \E values \in Requests : params' = values
    /\ q' = [ZeroQuery EXCEPT !.Sort = config.DefaultSort,
                              !.Limit = config.DefaultLimit,
                              !.Select = Join(builder.selectFields, <<",">>)]
    /\ pc' = "limit"
    /\ UNCHANGED <<petStore, calls, config, builder, status, ret, order, stages, keyExps>>


\* Faulty variant of ParseLimit: the error of parseNumber does not end the call.
ParseLimitNoReturn ==
    /\ AtStage("limit")
    /\ LET v == Get(params, config.LimitParam)
           r == parseNumber(config.LimitParam, v, 0, config.LimitMaxValue)
       IN  IF v = <<>>
           THEN /\ pc' = "offset" /\ stages' = Append(stages, "limit")
                /\ UNCHANGED <<q, ret>>
           ELSE /\ q' = [q EXCEPT !.Limit = r.n]
                /\ pc' = "offset" /\ stages' = Append(stages, "limit")
                /\ UNCHANGED ret
    /\ UNCHANGED <<petStore, calls, config, builder, status, params, order, keyExps>>

ParseLimit ==
    /\ AtStage("limit")
    /\ LET v == Get(params, config.LimitParam)
           r == parseNumber(config.LimitParam, v, 0, config.LimitMaxValue)
       IN  IF v = <<>>
           THEN /\ pc' = "offset" /\ stages' = Append(stages, "limit")
                /\ UNCHANGED <<q, ret>>
           ELSE IF ~r.err.nil
           THEN Fail("limit", r.err) /\ UNCHANGED q
           ELSE /\ q' = [q EXCEPT !.Limit = r.n]
                /\ pc' = "offset" /\ stages' = Append(stages, "limit")
                /\ UNCHANGED ret
    /\ UNCHANGED <<petStore, calls, config, builder, status, params, order, keyExps>>

\* Faulty variant of ParseOffset: the limit's maximum is applied to the offset.
ParseOffsetWithMax ==
    /\ AtStage("offset")
    /\ LET v == Get(params, config.OffsetParam)
           r == parseNumber(config.OffsetParam, v, 0, config.LimitMaxValue)
       IN  IF v = <<>>
           THEN /\ pc' = "sort" /\ stages' = Append(stages, "offset")
                /\ UNCHANGED <<q, ret>>
           ELSE IF ~r.err.nil
           THEN Fail("offset", r.err) /\ UNCHANGED q
           ELSE /\ q' = [q EXCEPT !.Offset = r.n]
                /\ pc' = "sort" /\ stages' = Append(stages, "offset")
                /\ UNCHANGED ret
    /\ UNCHANGED <<petStore, calls, config, builder, status, params, order, keyExps>>

ParseOffset ==
    /\ AtStage("offset")
    /\ LET v == Get(params, config.OffsetParam)
           r == parseNumber(config.OffsetParam, v, 0, -1)
       IN  IF v = <<>>
           THEN /\ pc' = "sort" /\ stages' = Append(stages, "offset")
                /\ UNCHANGED <<q, ret>>
           ELSE IF ~r.err.nil
           THEN Fail("offset", r.err) /\ UNCHANGED q
           ELSE /\ q' = [q EXCEPT !.Offset = r.n]
                /\ pc' = "sort" /\ stages' = Append(stages, "offset")
                /\ UNCHANGED ret
    /\ UNCHANGED <<petStore, calls, config, builder, status, params, order, keyExps>>

\* Faulty variant of ParseSort: IgnoreSort is not looked at.
ParseSortAlways ==
    /\ AtStage("sort")
    /\ IF config.SortParam \in DOMAIN params
       THEN LET r == parseSort(builder, params[config.SortParam])
            IN  IF ~r.err.nil
                THEN Fail("sort", r.err) /\ UNCHANGED q
                ELSE /\ q' = [q EXCEPT !.Sort = r.exp]
                     /\ pc' = "filter" /\ stages' = Append(stages, "sort")
                     /\ UNCHANGED ret
       ELSE /\ pc' = "filter" /\ stages' = Append(stages, "sort")
            /\ UNCHANGED <<q, ret>>
    /\ UNCHANGED <<petStore, calls, config, builder, status, params, order, keyExps>>

ParseSort ==
    /\ AtStage("sort")
    /\ IF ~config.IgnoreSort /\ config.SortParam \in DOMAIN params
       THEN LET r == parseSort(builder, params[config.SortParam])
            IN  IF ~r.err.nil
                THEN Fail("sort", r.err) /\ UNCHANGED q
                ELSE /\ q' = [q EXCEPT !.Sort = r.exp]
                     /\ pc' = "filter" /\ stages' = Append(stages, "sort")
                     /\ UNCHANGED ret
       ELSE /\ pc' = "filter" /\ stages' = Append(stages, "sort")
            /\ UNCHANGED <<q, ret>>
    /\ UNCHANGED <<petStore, calls, config, builder, status, params, order, keyExps>>

ParseFilter ==
    /\ AtStage("filter")
    /\ \E names \in VisitOrders(builder, params) :
          LET r == parseFilter(builder, params, names)
          IN  /\ order' = names
              /\ keyExps' = r.exps
              /\ IF ~r.err.nil
                 THEN Fail("filter", r.err) /\ UNCHANGED q
                 ELSE /\ q' = [q EXCEPT !.CondExp = r.exp, !.CondVal = r.val]
                      /\ pc' = "search" /\ stages' = Append(stages, "filter")
                      /\ UNCHANGED ret
    /\ UNCHANGED <<petStore, calls, config, builder, status, params>>

\* The search stage and the return of the descriptor (lines 160-165).
ParseSearch ==
    /\ AtStage("search")
    /\ LET s == parseSearch(config, params[searchParam])
           query == IF searchParam \in DOMAIN params /\ builder.searcher
                    THEN And(q, s.exp, s.vals) ELSE q
       IN  /\ q' = query
           /\ ret' = returnQuery(query)
    /\ pc' = "done"
    /\ stages' = Append(stages, "search")
    /\ UNCHANGED <<petStore, calls, config, builder, status, params, order, keyExps>>

Init == InitWith(ParseConfigs)

Next ==
    \/ NewBuilder
    \/ ParseBegin
    \/ ParseLimit
    \/ ParseOffset
    \/ ParseSort
    \/ ParseFilter
    \/ ParseSearch

Spec == Init /\ [][Next]_vars

(***************************************************************************)
(* Properties                                                              *)
(***************************************************************************)
Range(s) == {s[i] : i \in 1..Len(s)}

\* The call returned a descriptor / returned an error.
Returned == pc = "done" /\ ~ret.nil
Errored == pc = "done" /\ ~ret.err.nil

\* The stage ended the call with its error / ran and let the call go on.
Failed(stage) == pc = "done" /\ ret.nil /\ stages # <<>> /\ stages[Len(stages)] = stage
Passed(stage) == stage \in Range(stages) /\ ~Failed(stage)

CountPlaceholders(exp) == Cardinality({i \in 1..Len(exp) : exp[i] = "?"})

\* The keys of the request that are compiled filter keys.
PresentKeys == DOMAIN builder.filterFields \cap DOMAIN params

SearchActive == searchParam \in DOMAIN params /\ builder.searcher

\* C1: in every descriptor Parse returns, the number of '?' placeholders of
\* CondExp equals len(CondVal).
C1_PlaceholdersMatchValues ==
    Returned => CountPlaceholders(ret.q.CondExp) = Len(ret.q.CondVal)

C1_Witness ==
    /\ Returned
    /\ Cardinality(PresentKeys) >= 2
    /\ Len(ret.q.CondVal) >= 3

\* For each placeholder of exp, left to right, the column and operator it
\* stands behind.
RECURSIVE Owners(_)
Owners(exp) ==
    IF Len(exp) < 3 THEN <<>>
    ELSE IF exp[Len(exp)] = "?"
    THEN Append(Owners(SubSeq(exp, 1, Len(exp) - 1)), <<exp[Len(exp) - 2], exp[Len(exp) - 1]>>)
    ELSE Owners(SubSeq(exp, 1, Len(exp) - 1))

\* The (column and operator, parsed value) pairs of a key's arguments, in
\* argument order, and those of the keys visited in the order names.
RECURSIVE BindingsOfArgs(_, _)
BindingsOfArgs(filter, args) ==
    IF args = <<>> THEN <<>>
    ELSE <<[owner |-> SubSeq(filter.exp, 1, 2), val |-> parse(filter.parse, Head(args)).v]>>
         \o BindingsOfArgs(filter, Tail(args))

RECURSIVE BindingsOfKeys(_)
BindingsOfKeys(names) ==
    IF names = <<>> THEN <<>>
    ELSE (IF Head(names) \in DOMAIN params
          THEN BindingsOfArgs(builder.filterFields[Head(names)],
                   splitArgs(builder.filterFields[Head(names)], params[Head(names)]))
          ELSE <<>>)
         \o BindingsOfKeys(Tail(names))

RECURSIVE BindingsOfSearch(_)
BindingsOfSearch(terms) ==
    IF terms = <<>> THEN <<>>
    ELSE << [owner |-> <<"name", " = ">>, val |-> Value("string", Head(terms), 0)],
            [owner |-> <<"status", " LIKE ">>, val |-> Value("string", <<"%">> \o Head(terms) \o <<"%">>, 0)] >>
         \o BindingsOfSearch(Tail(terms))

Bindings ==
    BindingsOfKeys(order) \o (IF SearchActive THEN BindingsOfSearch(params[searchParam]) ELSE <<>>)

\* C2: in every descriptor Parse returns, the i-th placeholder of CondExp is
\* the placeholder of the key and argument whose parsed value is CondVal[i],
\* whatever the order in which the filter keys were visited.
C2_ValuesAlignedWithPlaceholders ==
    Returned =>
        /\ Len(Owners(ret.q.CondExp)) = Len(Bindings)
        /\ Len(ret.q.CondVal) = Len(Bindings)
        /\ \A i \in 1..Len(Bindings) :
              /\ Owners(ret.q.CondExp)[i] = Bindings[i].owner
              /\ ret.q.CondVal[i] = Bindings[i].val

C2_Witness ==
    /\ Returned
    /\ Cardinality(PresentKeys) >= 2
    /\ \E i, j \in 1..Len(ret.q.CondVal) :
          /\ i < j
          /\ Owners(ret.q.CondExp)[i] # Owners(ret.q.CondExp)[j]
          /\ ret.q.CondVal[i] # ret.q.CondVal[j]
          /\ ret.q.CondVal[i].kind = "string"
          /\ ret.q.CondVal[j].kind = "int64"

\* The sort stage parsed the tokens of the request.
SortParsed == Passed("sort") /\ ~config.IgnoreSort /\ config.SortParam \in DOMAIN params

SortTokens == params[config.SortParam]

SortClauses == IF q.Sort = <<>> THEN <<>> ELSE Split(q.Sort, ", ")

\* C3 as stated: '+col' and bare 'col' both yield the clause 'col', '-col'
\* yields 'col desc'.
C3_PlusYieldsBareColumn ==
    SortParsed =>
        /\ Len(SortClauses) = Len(SortTokens)
        /\ \A i \in 1..Len(SortTokens) :
              LET t == SortTokens[i]
              IN  /\ t[1] = "+" => SortClauses[i] = Tail(t)
                  /\ t[1] = "-" => SortClauses[i] = Tail(t) \o <<" ", "desc">>
                  /\ t[1] \notin {"+", "-"} => SortClauses[i] = t

\* C3 amended: '+col' yields 'col asc', bare 'col' yields 'col' and '-col'
\* yields 'col desc'.
C3_SortClauses ==
    SortParsed =>
        /\ Len(SortClauses) = Len(SortTokens)
        /\ \A i \in 1..Len(SortTokens) :
              LET t == SortTokens[i]
              IN  /\ t[1] = "+" => SortClauses[i] = Tail(t) \o <<" ", "asc">>
                  /\ t[1] = "-" => SortClauses[i] = Tail(t) \o <<" ", "desc">>
                  /\ t[1] \notin {"+", "-"} => SortClauses[i] = t

C3_Witness ==
    /\ SortParsed
    /\ SortTokens = <<(<<"+", "name">>)>>
    /\ q.Sort = <<"name", " ", "asc">>

\* The leaf fields of a struct: an embedded struct stands for its fields.
RECURSIVE Leaves(_)
Leaves(fields) ==
    IF fields = <<>> THEN {}
    ELSE (IF Head(fields).Embedded THEN Leaves(Head(fields).Fields) ELSE {Head(fields)})
         \cup Leaves(Tail(fields))

Compiled == status = "built"

ModelLeaves == Leaves(config.Model.fields)

Markers(field) == Range(Split(Tag(field, <<"query">>), ","))

GormMarkers(field) == Range(Split(Tag(field, <<"gorm">>), ";"))

Column(field) == ToDBName(field.Name)

HasCustomParam(field) ==
    \E o \in Markers(field) : Len(o) = 3 /\ o[1] = "param" /\ o[2] = "="

CustomParam(field) ==
    LET o == CHOOSE m \in Markers(field) : Len(m) = 3 /\ m[1] = "param" /\ m[2] = "="
    IN  <<o[3]>>

\* The name the filter keys of the field are built from.
FilterName(field) == IF HasCustomParam(field) THEN CustomParam(field) ELSE Column(field)

\* The compiled keys built from a name: the bare name and name_<operator>.
KeysOf(name) ==
    {k \in DOMAIN builder.filterFields : k = name \/ HasPrefix(k, name \o <<"_">>)}

Excluded(field) ==
    \E o \in GormMarkers(field) :
        o # <<>> /\ o[1] \in {"-", "foreignkey", "association_foreignkey", "many2many"}

\* C4 as stated: the keys of a filterable field with a custom parameter name
\* are built from that name, and the fragment of each of them names the
\* field's snake-cased column.
C4_FragmentNamesColumn ==
    Compiled =>
        \A f \in ModelLeaves :
            (filterTag \in Markers(f) /\ HasCustomParam(f)) =>
                /\ {CustomParam(f), CustomParam(f) \o <<"_", "eq">>} \subseteq DOMAIN builder.filterFields
                /\ \A k \in KeysOf(CustomParam(f)) :
                      SubSeq(builder.filterFields[k].exp, 1, 1) = Column(f)

\* C4 amended: the custom parameter name replaces the column both in the
\* filter keys and in the fragment registered for each of them; the
\* sort-field set and the select list keep the snake-cased column.
C4_FragmentNamesCustomParam ==
    Compiled =>
        \A f \in ModelLeaves :
            (filterTag \in Markers(f) /\ HasCustomParam(f)) =>
                /\ {CustomParam(f), CustomParam(f) \o <<"_", "eq">>} \subseteq DOMAIN builder.filterFields
                /\ Column(f) \notin DOMAIN builder.filterFields
                /\ \A k \in KeysOf(CustomParam(f)) :
                      SubSeq(builder.filterFields[k].exp, 1, 1) = CustomParam(f)
                /\ sortTag \in Markers(f) => Column(f) \in builder.sortFields
                /\ CustomParam(f) \notin builder.sortFields
                /\ CustomParam(f) \notin Range(builder.selectFields)

C4_Witness ==
    /\ Compiled
    /\ config.ExplicitSelect
    /\ \E f \in ModelLeaves :
          /\ filterTag \in Markers(f) /\ sortTag \in Markers(f) /\ HasCustomParam(f)
          /\ Column(f) \in Range(builder.selectFields)
          /\ CustomParam(f) \o <<"_", "like">> \in DOMAIN builder.filterFields

\* C5 as stated: a field with a storage-mapping exclusion marker is in none
\* of the sort-field set, the filter-field table and the select list.
C5_ExcludedFieldNeverRegistered ==
    Compiled =>
        \A f \in ModelLeaves :
            Excluded(f) =>
                /\ Column(f) \notin builder.sortFields
                /\ KeysOf(FilterName(f)) = {}
                /\ Column(f) \notin Range(builder.selectFields)

\* C5 amended: a field with a storage-mapping exclusion marker is never in
\* the select list; the marker does not change its sort and filter
\* registration, which follow its sort and filter markers.
C5_ExcludedFieldNotSelected ==
    Compiled =>
        \A f \in ModelLeaves :
            Excluded(f) =>
                /\ Column(f) \notin Range(builder.selectFields)
                /\ Column(f) \in builder.sortFields <=> sortTag \in Markers(f)
                /\ KeysOf(FilterName(f)) # {} <=> filterTag \in Markers(f)
                /\ filterTag \in Markers(f) =>
                      {FilterName(f), FilterName(f) \o <<"_", "eq">>, FilterName(f) \o <<"_", "neq">>}
                          \subseteq DOMAIN builder.filterFields

C5_Witness ==
    /\ Compiled
    /\ config.ExplicitSelect
    /\ builder.selectFields # <<>>
    /\ \E f \in ModelLeaves :
          /\ Excluded(f)
          /\ sortTag \in Markers(f) /\ filterTag \in Markers(f)
          /\ Column(f) \in builder.sortFields
          /\ Column(f) \o <<"_", "gte">> \in DOMAIN builder.filterFields

\* n copies of the template joined by " OR ".
RECURSIVE Repeated(_, _)
Repeated(template, n) ==
    IF n <= 1 THEN (IF n = 1 THEN template ELSE <<>>)
    ELSE Repeated(template, n - 1) \o <<" OR ">> \o template

\* The number of values the request gives the key, a comma-split value
\* counting for its parts.
NumValues(name) == Len(splitArgs(builder.filterFields[name], params[name]))

\* The expression of a present key before its wrap, by the two formats.
FormatOf(name) ==
    LET n == NumValues(name)
        t == builder.filterFields[name].exp
    IN  IF n > 1 THEN <<"(">> \o Repeated(t, n) \o <<")">> ELSE Repeated(t, n)

\* The per-key expressions (after wrap) of the keys visited in the order
\* names, then the search expression.
RECURSIVE ConjunctsOfKeys(_)
ConjunctsOfKeys(names) ==
    IF names = <<>> THEN <<>>
    ELSE (IF Head(names) \in DOMAIN params
          THEN <<Wrap(builder.filterFields[Head(names)].wrap, FormatOf(Head(names)))>>
          ELSE <<>>)
         \o ConjunctsOfKeys(Tail(names))

Conjuncts ==
    ConjunctsOfKeys(order)
        \o (IF SearchActive THEN <<parseSearch(config, params[searchParam]).exp>> ELSE <<>>)

RECURSIVE NonEmpty(_)
NonEmpty(l) ==
    IF l = <<>> THEN <<>>
    ELSE (IF Head(l) = <<>> THEN <<>> ELSE <<Head(l)>>) \o NonEmpty(Tail(l))

\* C6: the filter expression of a returned descriptor is the " AND "-join of
\* exactly the non-empty expressions of the keys present in the request and
\* in the filter-field table (and of the search): no fragment for an absent
\* key, no empty conjunct, no leading or trailing " AND ".
C6_AndJoinOfNonEmptyConjuncts ==
    Returned =>
        /\ ret.q.CondExp = Join(NonEmpty(Conjuncts), <<" AND ">>)
        /\ ret.q.CondExp # <<>> =>
              /\ ret.q.CondExp[1] # " AND "
              /\ ret.q.CondExp[Len(ret.q.CondExp)] # " AND "

\* The filter stage built the expressions of the keys of the request.
FilterParsed == Passed("filter")

\* C7: the expression of a present key before its wrap is the bare template
\* for exactly one value, and "(" + N templates joined by " OR " + ")" for
\* N > 1 values.
C7_KeyExpressionFormat ==
    FilterParsed =>
        /\ DOMAIN keyExps = PresentKeys
        /\ \A name \in PresentKeys :
              LET t == builder.filterFields[name].exp
                  n == NumValues(name)
              IN  /\ n = 1 => keyExps[name] = t
                  /\ n > 1 => keyExps[name] = <<"(">> \o Repeated(t, n) \o <<")">>

C7_Witness ==
    /\ FilterParsed
    /\ \E one, many \in PresentKeys :
          /\ NumValues(one) = 1
          /\ NumValues(many) = 2
          /\ keyExps[one] = <<"age", " > ", "?">>
          /\ keyExps[many] = <<"(", "tag_name", " = ", "?", " OR ", "tag_name", " = ", "?", ")">>

StageOrder == <<"limit", "offset", "sort", "filter", "search">>

\* The request is invalid for the stage, whatever the other stages do.
LimitInvalid ==
    /\ Get(params, config.LimitParam) # <<>>
    /\ ~parseNumber(config.LimitParam, Get(params, config.LimitParam), 0, config.LimitMaxValue).err.nil

OffsetInvalid ==
    /\ Get(params, config.OffsetParam) # <<>>
    /\ ~parseNumber(config.OffsetParam, Get(params, config.OffsetParam), 0, -1).err.nil

SortInvalid ==
    /\ ~config.IgnoreSort
    /\ config.SortParam \in DOMAIN params
    /\ \E i \in 1..Len(params[config.SortParam]) :
          LET t == params[config.SortParam][i]
          IN  \/ t = <<>>
              \/ (IF t[1] \in {"+", "-"} THEN Tail(t) ELSE t) \notin builder.sortFields

InvalidKeys ==
    {name \in PresentKeys :
        \E i \in 1..NumValues(name) :
            ~parse(builder.filterFields[name].parse,
                   splitArgs(builder.filterFields[name], params[name])[i]).ok}

StageInvalid(stage) ==
    CASE stage = "limit" -> LimitInvalid
      [] stage = "offset" -> OffsetInvalid
      [] stage = "sort" -> SortInvalid
      [] stage = "filter" -> InvalidKeys # {}
      [] stage = "search" -> FALSE

\* The error the stage reports for the request.
StageErrors(stage) ==
    CASE stage = "limit" ->
            {parseNumber(config.LimitParam, Get(params, config.LimitParam), 0, config.LimitMaxValue).err}
      [] stage = "offset" ->
            {parseNumber(config.OffsetParam, Get(params, config.OffsetParam), 0, -1).err}
      [] stage = "sort" -> {parseSort(builder, params[config.SortParam]).err}
      [] stage = "filter" ->
            {ParseError(<<"invalid parameter for key '">> \o name \o <<"'">>) : name \in InvalidKeys}
      [] stage = "search" -> {}

\* C8: the stages run in the order limit, offset, sort, filter, search; the
\* call ends at the earliest stage the request is invalid for, with the
\* error of that stage, and no later stage runs.
C8_FirstFailureShortCircuits ==
    /\ stages = SubSeq(StageOrder, 1, Len(stages))
    /\ \A i \in 1..Len(stages) :
          (i < Len(stages) \/ ~Errored) => ~StageInvalid(stages[i])
    /\ Errored =>
          /\ StageInvalid(stages[Len(stages)])
          /\ ret.err \in StageErrors(stages[Len(stages)])
    /\ (pc = "done" /\ ~Errored) => stages = StageOrder

C8_Witness ==
    /\ Errored
    /\ LimitInvalid
    /\ SortInvalid
    /\ stages = <<"limit">>

\* C9: Parse returns exactly one of a descriptor and an error.
C9_DescriptorXorError ==
    pc = "done" => (ret.nil <=> ~ret.err.nil)

C9_Witness ==
    /\ Errored
    /\ ret.nil
    /\ stages = <<"limit", "offset", "sort", "filter">>
    /\ q.Limit = 7 /\ q.Limit # config.DefaultLimit

\* C10: a present, non-empty limit is accepted iff its first value is an
\* integer n with 0 <= n and (LimitMaxValue = -1 or n <= LimitMaxValue), and
\* then Limit = n; otherwise Parse returns a ParseError.  With the default
\* LimitMaxValue of 100, 101 is an error, 0 is accepted and a non-numeric
\* limit is an error; an absent or empty limit yields DefaultLimit.
C10_LimitBounds ==
    "limit" \in Range(stages) =>
        LET v == Get(params, config.LimitParam)
            a == Atoi(v)
            max == config.LimitMaxValue
        IN  /\ v # <<>> =>
                  /\ Passed("limit") <=> (a.ok /\ 0 <= a.n /\ (max = -1 \/ a.n <= max))
                  /\ Passed("limit") => q.Limit = a.n
                  /\ ~Passed("limit") => (Errored /\ ret.nil /\ stages = <<"limit">>)
            /\ v = <<>> => (Passed("limit") /\ q.Limit = config.DefaultLimit)
            /\ (max = 100 /\ v = <<"1", "0", "1">>) => Failed("limit")
            /\ (max = 100 /\ v = <<"0">>) => (Passed("limit") /\ q.Limit = 0)
            /\ (max = 100 /\ v = <<"x">>) => Failed("limit")
            /\ Returned => ret.q.Limit = q.Limit

C10_Witness ==
    /\ Returned
    /\ config.LimitMaxValue = 100
    /\ Get(params, config.LimitParam) = <<"1", "0", "0">>
    /\ ret.q.Limit = 100


\* C11: a present, non-empty offset is accepted iff its first value is an
\* integer n with 0 <= n, whatever its size, and then Offset = n; a negative
\* or non-numeric offset ends the call with a ParseError; an absent or empty
\* offset yields Offset = 0.
C11_OffsetBounds ==
    "offset" \in Range(stages) =>
        LET v == Get(params, config.OffsetParam)
            a == Atoi(v)
        IN  /\ v # <<>> =>
                  /\ Passed("offset") <=> (a.ok /\ 0 <= a.n)
                  /\ Passed("offset") => q.Offset = a.n
                  /\ ~Passed("offset") =>
                        (Errored /\ ret.nil /\ stages = <<"limit", "offset">>)
            /\ v = <<>> => (Passed("offset") /\ q.Offset = 0)
            /\ v = <<"-", "1">> => Failed("offset")
            /\ v = <<"x">> => Failed("offset")
            /\ Returned => ret.q.Offset = q.Offset

C11_Witness ==
    /\ Returned
    /\ config.LimitMaxValue = 100
    /\ Get(params, config.OffsetParam) = <<"1", "0", "1">>
    /\ ret.q.Offset = 101


\* The name of a sort token: the token without its leading '+' or '-'.
SortName(t) == IF t # <<>> /\ t[1] \in {"+", "-"} THEN Tail(t) ELSE t

\* An empty token, or a token whose name is not a compiled sort field.
BadSortToken(t) == t = <<>> \/ SortName(t) \notin builder.sortFields

BadSortTokens ==
    IF config.SortParam \in DOMAIN params
    THEN {i \in 1..Len(SortTokens) : BadSortToken(SortTokens[i])}
    ELSE {}

\* C12 as stated: a request with an empty sort token, or a sort token whose
\* name is not a compiled sort field, always ends with a validation error.
C12_BadSortTokenAlwaysRejected ==
    (pc = "done" /\ status = "built" /\ BadSortTokens # {}) => (Errored /\ ret.nil)

\* C12 amended: unless IgnoreSort is set, a request with an empty sort token,
\* or a sort token whose name (without a leading '+' or '-') is not a
\* compiled sort field, ends with a validation error and no descriptor,
\* whatever the other tokens are; the sort stage, when reached, fails on the
\* first such token.
C12_BadSortTokenRejected ==
    (status = "built" /\ ~config.IgnoreSort /\ BadSortTokens # {}) =>
        /\ pc = "done" => (Errored /\ ret.nil)
        /\ "sort" \in Range(stages) =>
              LET i == CHOOSE j \in BadSortTokens : \A k \in BadSortTokens : j <= k
                  t == SortTokens[i]
              IN  /\ Failed("sort")
                  /\ ret.err.msg = IF t = <<>> THEN <<"missing sort parameter">>
                                   ELSE <<"invalid sort parameter '">> \o SortName(t) \o <<"'">>

C12_Witness ==
    /\ Failed("sort")
    /\ ~config.IgnoreSort
    /\ config.SortParam \in DOMAIN params
    /\ SortTokens = <<(<<"name">>), (<<"age">>)>>
    /\ <<"name">> \in builder.sortFields


\* The clause of one valid sort token: its name, followed by the direction
\* its prefix asks for.
ClauseOf(t) ==
    CASE t[1] = "+" -> Tail(t) \o <<" ", "asc">>
      [] t[1] = "-" -> Tail(t) \o <<" ", "desc">>
      [] OTHER -> t

RECURSIVE ClauseList(_)
ClauseList(tokens) ==
    IF tokens = <<>> THEN <<>>
    ELSE IF Len(tokens) = 1 THEN ClauseOf(tokens[1])
    ELSE ClauseOf(tokens[1]) \o <<", ">> \o ClauseList(Tail(tokens))

\* C13: when IgnoreSort is not set and the request supplies sort tokens, the
\* returned Sort is the clauses of the tokens, one per token in request
\* order, joined by a comma (and a space), in place of DefaultSort; when the
\* request has no sort parameter, the returned Sort is DefaultSort.
C13_SortListsClausesInOrder ==
    Returned =>
        /\ (~config.IgnoreSort /\ config.SortParam \in DOMAIN params /\ SortTokens # <<>>) =>
              ret.q.Sort = ClauseList(SortTokens)
        /\ config.SortParam \notin DOMAIN params => ret.q.Sort = config.DefaultSort

C13_Witness ==
    /\ Returned
    /\ config.DefaultSort = <<"name", " ", "desc">>
    /\ config.SortParam \in DOMAIN params
    /\ SortTokens = <<(<<"-", "created_at">>), (<<"+", "name">>)>>
    /\ ret.q.Sort = <<"created_at", " ", "desc", ", ", "name", " ", "asc">>


\* The key is of a string (or LIKE), numeric, date or boolean field.
StringKey(name) == builder.filterFields[name].parse \in {"parseString", "parseLikeString"}
NumericKey(name) == builder.filterFields[name].parse \in {"parseInt", "parseInt64"}
DateKey(name) == builder.filterFields[name].parse \in {"parseDate", "parseDatePointer"}
BoolKey(name) == builder.filterFields[name].parse = "parseBool"

\* Decimal digits with an optional sign.
IntegerText(s) ==
    LET d == IF s # <<>> /\ s[1] \in {"+", "-"} THEN Tail(s) ELSE s
    IN  d # <<>> /\ \A i \in 1..Len(d) : d[i] \in Digits

\* The value is not one the parser of the key's kind accepts.
FailsParser(name, s) ==
    \/ StringKey(name) /\ s = <<>>
    \/ NumericKey(name) /\ ~IntegerText(s)
    \/ DateKey(name) /\ s \notin RFC3339Strings
    \/ BoolKey(name) /\ s \notin BoolLiterals

\* The values the request supplies for a key: the occurrences of the key,
\* or the parts of the single comma-separated occurrence of a split key.
SuppliedValues(name) ==
    LET args == params[name]
    IN  IF builder.filterFields[name].splitOnComma /\ Len(args) = 1 /\ Contains(args[1], ",")
        THEN Split(args[1], ",") ELSE args

FailingKeys ==
    {name \in PresentKeys :
        \E i \in 1..Len(SuppliedValues(name)) : FailsParser(name, SuppliedValues(name)[i])}

\* C14: when a value supplied for a key of the request that is a compiled
\* filter key fails the parser of the key (an empty string for a string or
\* LIKE key, a non-integer for a numeric key, a text that is not RFC3339 for
\* a date key, no boolean literal for a boolean key), Parse returns an error
\* and no descriptor, whatever the other keys and values are; the error of
\* the filter stage names a key with a failing value.
C14_FailingValueAborts ==
    (status = "built" /\ FailingKeys # {}) =>
        /\ pc = "done" => (Errored /\ ret.nil)
        /\ "filter" \in Range(stages) =>
              /\ Failed("filter")
              /\ \E name \in FailingKeys :
                    ret.err.msg = <<"invalid parameter for key '">> \o name \o <<"'">>

C14_Witness ==
    /\ Failed("filter")
    /\ DOMAIN params = {<<"created_at", "_", "gte">>, <<"age", "_", "gt">>}
    /\ params[<<"age", "_", "gt">>] = <<(<<"1", "0">>)>>
    /\ FailingKeys = {<<"created_at", "_", "gte">>}
    /\ ret.err.msg = <<"invalid parameter for key '", "created_at", "_", "gte", "'">>


\* The present keys of comma-split fields given as one comma-separated
\* occurrence, and the request that gives the parts as separate occurrences.
SplitKeys ==
    {name \in PresentKeys :
        /\ builder.filterFields[name].splitOnComma
        /\ Len(params[name]) = 1
        /\ Contains(params[name][1], ",")}

Separately(name) == [params EXCEPT ![name] = Split(params[name][1], ",")]

\* The values bound for the keys visited in the order names, when no
\* occurrence is split: each occurrence parsed as it is.
RECURSIVE UnsplitValues(_)
UnsplitValues(names) ==
    IF names = <<>> THEN <<>>
    ELSE LET name == Head(names)
         IN  (IF name \in PresentKeys
              THEN [i \in 1..Len(params[name]) |->
                        parse(builder.filterFields[name].parse, params[name][i]).v]
              ELSE <<>>) \o UnsplitValues(Tail(names))

\* C15: for a key of a comma-split field, the request giving one occurrence
\* 'a,b' and the request giving the occurrences 'a' and 'b' have the same
\* outcome: the same per-key expression, the same bound values, the same
\* error.  A key of a field without the flag, and a key given more than
\* once, is not split: it has one OR term and one bound value per occurrence.
C15_CommaSplitEquivalence ==
    (status = "built" /\ "filter" \in Range(stages)) =>
        /\ \A name \in SplitKeys :
              LET r == parseFilter(builder, Separately(name), order)
              IN  /\ Failed("filter") <=> ~r.err.nil
                  /\ Failed("filter") => ret.err = r.err
                  /\ Passed("filter") =>
                        /\ keyExps = r.exps
                        /\ CountPlaceholders(keyExps[name]) = Len(Split(params[name][1], ","))
                        /\ SubSeq(q.CondVal, 1, Len(r.val)) = r.val
                        /\ pc = "search" => (q.CondExp = r.exp /\ q.CondVal = r.val)
        /\ Passed("filter") =>
              \A name \in PresentKeys \ SplitKeys :
                  CountPlaceholders(keyExps[name]) = Len(params[name])
        /\ (pc = "search" /\ SplitKeys = {}) => q.CondVal = UnsplitValues(order)

C15_Witness ==
    /\ pc = "search"
    /\ DOMAIN params = {<<"tag_name">>, <<"name">>}
    /\ params[<<"tag_name">>] = <<(<<"a", ",", "b">>)>>
    /\ params[<<"name">>] = <<(<<"a", ",", "b">>)>>
    /\ keyExps[<<"tag_name">>] = <<"(", "tag_name", " = ", "?", " OR ", "tag_name", " = ", "?", ")">>
    /\ keyExps[<<"name">>] = <<"name", " = ", "?">>


SearchTerms == params[searchParam]

\* The per-term expressions joined by ' <SearchOperator> ', in parentheses
\* when there is more than one term.
SearchExpression ==
    LET exps == [i \in 1..Len(SearchTerms) |-> Search(SearchTerms[i]).exp]
        exp  == Join(exps, <<" ">> \o config.SearchOperator \o <<" ">>)
    IN  IF Len(SearchTerms) > 1 THEN <<"(">> \o exp \o <<")">> ELSE exp

\* The values of the terms, in term order.
RECURSIVE SearchValuesOf(_)
SearchValuesOf(terms) ==
    IF terms = <<>> THEN <<>> ELSE Search(Head(terms)).vals \o SearchValuesOf(Tail(terms))

\* C16: with a Searcher model and a search parameter of k >= 1 terms, the
\* search expression is the k per-term expressions in term order joined by
\* ' <SearchOperator> ' (AND by default) and parenthesized iff k > 1; it is
\* the last conjunct of CondExp, after the filter expression and ' AND '
\* when the filter expression is not empty, and its values are the suffix of
\* CondVal, in term order, after the filter values.  With a model that is no
\* Searcher the search parameter changes nothing.
C16_SearchIsLastConjunct ==
    Returned =>
        LET f == parseFilter(builder, params, order)
        IN  /\ (SearchActive /\ Len(SearchTerms) >= 1) =>
                  /\ ret.q.CondExp =
                        (IF f.exp # <<>> THEN f.exp \o <<" AND ">> ELSE <<>>) \o SearchExpression
                  /\ ret.q.CondVal = f.val \o SearchValuesOf(SearchTerms)
            /\ ~builder.searcher => (ret.q.CondExp = f.exp /\ ret.q.CondVal = f.val)
            /\ config.SearchOperator \in {<<"AND">>, <<"OR">>}

C16_Witness ==
    /\ Returned
    /\ SearchActive
    /\ config.SearchOperator = <<"AND">>
    /\ SearchTerms = <<(<<"foo">>), (<<"bar">>)>>
    /\ <<"age", "_", "gt">> \in DOMAIN params
    /\ ret.q.CondExp = <<"age", " > ", "?", " AND ", "(",
                         "(", "name", " = ", "?", " OR ", "status", " LIKE ", "?", ")",
                         " ", "AND", " ",
                         "(", "name", " = ", "?", " OR ", "status", " LIKE ", "?", ")", ")">>
    /\ Len(ret.q.CondVal) = 5


Filterable(field) == filterTag \in Markers(field)

\* The operator suffixes and SQL operators of a field, by the kind of its
\* value type; the empty suffix is the bare key.
StringLike(field) ==
    field.Type \in {"string", "*string", "MyEnum", "*MyEnum", "Tags", "Stringer"}

NumericOrDate(field) ==
    field.Type \in {"int", "*int", "int64", "*int64", "time.Time", "*time.Time"}

Boolean(field) == field.Type \in {"bool", "*bool"}

OperatorsOf(field) ==
    CASE StringLike(field) ->
            {<<"", " = ">>, <<"eq", " = ">>, <<"neq", " <> ">>, <<"like", " LIKE ">>}
      [] NumericOrDate(field) ->
            {<<"", " = ">>, <<"eq", " = ">>, <<"neq", " <> ">>, <<"lt", " < ">>,
             <<"lte", " <= ">>, <<"gt", " > ">>, <<"gte", " >= ">>}
      [] Boolean(field) ->
            {<<"", " = ">>, <<"eq", " = ">>, <<"neq", " <> ">>}
      [] OTHER -> {}

KeyOf(field, op) ==
    IF op[1] = "" THEN FilterName(field) ELSE FilterName(field) \o <<"_", op[1]>>

TableKeys == UNION { {KeyOf(f, op) : op \in OperatorsOf(f)} : f \in {g \in ModelLeaves : Filterable(g)} }

\* C17 as stated: the table holds exactly the keys k, k_<operator> of the
\* filterable fields, by the kind of each field, and the template of each
\* key is '<column> <operator> ?'.
C17_TemplatesNameColumn ==
    Compiled =>
        /\ DOMAIN builder.filterFields = TableKeys
        /\ \A f \in ModelLeaves : Filterable(f) =>
              \A op \in OperatorsOf(f) :
                  builder.filterFields[KeyOf(f, op)].exp = Column(f) \o <<op[2], "?">>

\* C17 amended: the table holds exactly the keys k, k_<operator> of the
\* filterable fields (string-like: bare, eq, neq, like; integer, 64-bit
\* integer and date, and their pointers: bare, eq, neq, lt, lte, gt, gte;
\* boolean and its pointer: bare, eq, neq) and the template of each key is
\* '<k> <operator> ?', where k is the custom parameter name of the field
\* when it has one and its column otherwise.  A field without the filter
\* marker contributes no key.
C17_FilterTable ==
    Compiled =>
        /\ DOMAIN builder.filterFields = TableKeys
        /\ \A f \in ModelLeaves : Filterable(f) =>
              \A op \in OperatorsOf(f) :
                  builder.filterFields[KeyOf(f, op)].exp = FilterName(f) \o <<op[2], "?">>

C17_Witness ==
    /\ Compiled
    /\ Cardinality(DOMAIN builder.filterFields) = 11
    /\ \E f, g \in ModelLeaves :
          /\ Filterable(f) /\ f.Type = "Tags" /\ HasCustomParam(f)
          /\ Filterable(g) /\ g.Type = "*time.Time"
    /\ builder.filterFields[<<"tag_name", "_", "like">>].exp = <<"tag_name", " LIKE ", "?">>
    /\ builder.filterFields[<<"updated_at", "_", "lte">>].exp = <<"updated_at", " <= ", "?">>


\* A value type of none of the kinds the compiler registers filters for.
Unsupported(field) == ~StringLike(field) /\ ~NumericOrDate(field) /\ ~Boolean(field)

Misconfigured == \E f \in ModelLeaves : Filterable(f) /\ Unsupported(f)

\* C18: NewBuilder with a nil Model returns (nil, error); with a model that
\* has a filterable field of an unsupported value type it does not return
\* (it panics), so the caller holds no Builder and no Parse starts; any
\* other model, also one with an unsupported field that is not filterable,
\* is compiled.
C18_NoBuilderFromMisconfiguration ==
    status # "new" =>
        /\ config.Model.nil => (status = "error" /\ builder = EmptyBuilder)
        /\ (~config.Model.nil /\ Misconfigured) => (status = "panic" /\ builder = EmptyBuilder)
        /\ (~config.Model.nil /\ ~Misconfigured) => status = "built"
        /\ status # "built" => pc = "idle"

C18_Witness ==
    /\ status = "panic"
    /\ builder = EmptyBuilder
    /\ Len(config.Model.fields) = 2
    /\ Filterable(config.Model.fields[1]) /\ ~Unsupported(config.Model.fields[1])
    /\ Filterable(config.Model.fields[2]) /\ Unsupported(config.Model.fields[2])


\* The columns of a list separated by commas.
RECURSIVE CommaJoined(_)
CommaJoined(columns) ==
    IF columns = <<>> THEN <<>>
    ELSE IF Len(columns) = 1 THEN columns[1]
    ELSE columns[1] \o <<",">> \o CommaJoined(Tail(columns))

ExplicitSelectMode == config.ExplicitSelect \/ config.OnlySelectNonDetailedFields

\* C19: the Select of every returned descriptor is the compiled select list
\* joined by commas when ExplicitSelect or OnlySelectNonDetailedFields is
\* set, and empty otherwise, whatever the request holds.
C19_SelectIsCompiledList ==
    Returned =>
        /\ ExplicitSelectMode => ret.q.Select = CommaJoined(builder.selectFields)
        /\ ~ExplicitSelectMode => ret.q.Select = <<>>
        /\ (ExplicitSelectMode /\ config.Model.fields = TestModel) =>
              ret.q.Select =
                  IF config.OnlySelectNonDetailedFields
                  THEN <<"name", ",", "age", ",", "created_at", ",", "tags", ",", "flag">>
                  ELSE <<"name", ",", "age", ",", "year", ",", "created_at", ",", "tags", ",", "flag">>

C19_Witness ==
    /\ Returned
    /\ config.OnlySelectNonDetailedFields
    /\ DOMAIN params = {<<"limit">>, <<"name">>}
    /\ ret.q.Select = <<"name", ",", "age", ",", "created_at", ",", "tags", ",", "flag">>


\* The leaves of a struct in declaration order, those of an embedded struct
\* at the position of the embedded field.
RECURSIVE DeclarationOrder(_)
DeclarationOrder(fields) ==
    IF fields = <<>> THEN <<>>
    ELSE (IF Head(fields).Embedded THEN DeclarationOrder(Head(fields).Fields)
          ELSE <<Head(fields)>>) \o DeclarationOrder(Tail(fields))

\* The leaves of a struct in the order the compiler reaches them: the direct
\* fields in declaration order, then the leaves of its embedded structs, the
\* embedded struct declared last first.
RECURSIVE CompileOrder(_)
RECURSIVE EmbeddedOrder(_)
CompileOrder(fields) ==
    SelectSeq(fields, LAMBDA f : ~f.Embedded)
        \o EmbeddedOrder(SelectSeq(fields, LAMBDA f : f.Embedded))

EmbeddedOrder(embedded) ==
    IF embedded = <<>> THEN <<>>
    ELSE CompileOrder(embedded[Len(embedded)].Fields)
             \o EmbeddedOrder(SubSeq(embedded, 1, Len(embedded) - 1))

\* A leaf whose column explicit-select mode selects.
Eligible(field) ==
    /\ ~Excluded(field)
    /\ ~(config.OnlySelectNonDetailedFields /\ detailedTag \in Markers(field))

ColumnsOf(leaves) ==
    LET eligible == SelectSeq(leaves, Eligible)
    IN  [i \in 1..Len(eligible) |-> Column(eligible[i])]

\* C20 as stated: in explicit-select mode the select list is the columns of
\* the eligible leaves in declaration order, the leaves of an embedded
\* struct at the position of the embedded field.
C20_SelectInDeclarationOrder ==
    (Compiled /\ ExplicitSelectMode) =>
        builder.selectFields = ColumnsOf(DeclarationOrder(config.Model.fields))

\* C20 amended: in explicit-select mode the select list holds the column of
\* each eligible leaf exactly once (a leaf is eligible unless its storage
\* tag excludes it or, under OnlySelectNonDetailedFields, it is marked
\* detailed); the direct fields of a struct come in declaration order and
\* the leaves of its embedded structs come after all of them, the embedded
\* struct declared last first.  Without embedded structs this is the
\* declaration order.
C20_SelectInCompileOrder ==
    (Compiled /\ ExplicitSelectMode) =>
        /\ builder.selectFields = ColumnsOf(CompileOrder(config.Model.fields))
        /\ Cardinality(Range(builder.selectFields)) = Len(builder.selectFields)
        /\ Range(builder.selectFields) = {Column(f) : f \in {g \in ModelLeaves : Eligible(g)}}
        /\ (\A i \in 1..Len(config.Model.fields) : ~config.Model.fields[i].Embedded) =>
              builder.selectFields = ColumnsOf(DeclarationOrder(config.Model.fields))

C20_Witness ==
    /\ Compiled
    /\ ExplicitSelectMode
    /\ Len(config.Model.fields) = 2
    /\ config.Model.fields[1].Name = "Audit"
    /\ config.Model.fields[2].Name = "Name"
    /\ builder.selectFields = <<(<<"name">>), (<<"note">>), (<<"rev">>)>>


\* The key belongs to a field whose type has a Wrap method.
HasWrap(name) == builder.filterFields[name].wrap # nopWrapper

\* The conjunct of a present key: its complete expression, inside the text
\* of the field's Wrap when the field has one.
ConjunctOf(name) ==
    IF HasWrap(name)
    THEN <<"(name IN (SELECT DISTINCT tag_name IN tags WHERE ">> \o FormatOf(name) \o <<"))">>
    ELSE FormatOf(name)

RECURSIVE WrappedConjuncts(_)
WrappedConjuncts(names) ==
    IF names = <<>> THEN <<>>
    ELSE (IF Head(names) \in PresentKeys THEN <<ConjunctOf(Head(names))>> ELSE <<>>)
         \o WrappedConjuncts(Tail(names))

\* C21: the conjunct of each present filter key is the wrap of the key's
\* field applied to the complete expression of the key (the templates
\* OR-joined and, for more than one value, parenthesized); for a key whose
\* field has no wrap the conjunct is that expression itself.
C21_WrapAppliedToWholeKeyExpression ==
    (pc = "search" /\ Passed("filter")) =>
        /\ q.CondExp = Join(WrappedConjuncts(order), <<" AND ">>)
        /\ \A name \in PresentKeys : ~HasWrap(name) => ConjunctOf(name) = keyExps[name]

C21_Witness ==
    /\ pc = "search"
    /\ DOMAIN params = {<<"tag_name">>, <<"age", "_", "gt">>}
    /\ params[<<"tag_name">>] = <<(<<"a">>), (<<"b">>)>>
    /\ order # <<>>
    /\ q.CondExp \in
          { <<"(name IN (SELECT DISTINCT tag_name IN tags WHERE ", "(",
              "tag_name", " = ", "?", " OR ", "tag_name", " = ", "?", ")", "))",
              " AND ", "age", " > ", "?">>,
            <<"age", " > ", "?", " AND ",
              "(name IN (SELECT DISTINCT tag_name IN tags WHERE ", "(",
              "tag_name", " = ", "?", " OR ", "tag_name", " = ", "?", ")", "))">> }


\* The parameter names Parse looks at: limit, offset, sort, search and the
\* compiled filter keys.
RecognizedKeys ==
    {config.LimitParam, config.OffsetParam, config.SortParam, searchParam}
        \cup DOMAIN builder.filterFields

\* C22: for a request with none of the recognized parameters Parse returns
\* a descriptor with Limit = DefaultLimit (25 when the Config sets none),
\* Offset = 0, Sort = DefaultSort, an empty filter expression and no values.
C22_EmptyRequestYieldsDefaults ==
    (pc = "done" /\ DOMAIN params \cap RecognizedKeys = {}) =>
        /\ Returned /\ ret.err.nil
        /\ ret.q.Limit = config.DefaultLimit
        /\ ret.q.Limit \in {c.DefaultLimit : c \in ParseConfigs} \cup {25}
        /\ ret.q.Limit # 0
        /\ config.DefaultSort = <<"name", " ", "desc">> => ret.q.Limit = 25
        /\ ret.q.Offset = 0
        /\ ret.q.Sort = config.DefaultSort
        /\ ret.q.CondExp = <<>>
        /\ ret.q.CondVal = <<>>

C22_Witness ==
    /\ Returned
    /\ params = <<>>
    /\ config.DefaultSort = <<"name", " ", "desc">>
    /\ ret.q = [ZeroQuery EXCEPT !.Limit = 25, !.Sort = <<"name", " ", "desc">>]


(***************************************************************************)
(* Builder.Parse as a function of the Builder and the request, and calls   *)
(* of it that run concurrently on one Builder.  A call reads the Builder   *)
(* and its Config and writes only its own q.                               *)
(***************************************************************************)
\* The allocation of q (lines 125-129).
beginCall(b, c, values, names) ==
    [pc |-> "limit", params |-> values, order |-> names,
     q |-> [ZeroQuery EXCEPT !.Sort = c.DefaultSort,
                             !.Limit = c.DefaultLimit,
                             !.Select = Join(b.selectFields, <<",">>)],
     ret |-> NoReturn]

endCall(call, e) == [call EXCEPT !.pc = "done", !.ret = returnError(e)]

\* One block of Parse: limit, offset, sort, filter, then search and return.
parseStep(b, c, call) ==
    CASE call.pc = "limit" ->
            LET v == Get(call.params, c.LimitParam)
                r == parseNumber(c.LimitParam, v, 0, c.LimitMaxValue)
            IN  IF v = <<>> THEN [call EXCEPT !.pc = "offset"]
                ELSE IF ~r.err.nil THEN endCall(call, r.err)
                ELSE [call EXCEPT !.pc = "offset", !.q.Limit = r.n]
      [] call.pc = "offset" ->
            LET v == Get(call.params, c.OffsetParam)
                r == parseNumber(c.OffsetParam, v, 0, -1)
            IN  IF v = <<>> THEN [call EXCEPT !.pc = "sort"]
                ELSE IF ~r.err.nil THEN endCall(call, r.err)
                ELSE [call EXCEPT !.pc = "sort", !.q.Offset = r.n]
      [] call.pc = "sort" ->
            IF ~c.IgnoreSort /\ c.SortParam \in DOMAIN call.params
            THEN LET r == parseSort(b, call.params[c.SortParam])
                 IN  IF ~r.err.nil THEN endCall(call, r.err)
                     ELSE [call EXCEPT !.pc = "filter", !.q.Sort = r.exp]
            ELSE [call EXCEPT !.pc = "filter"]
      [] call.pc = "filter" ->
            LET r == parseFilter(b, call.params, call.order)
            IN  IF ~r.err.nil THEN endCall(call, r.err)
                ELSE [call EXCEPT !.pc = "search", !.q.CondExp = r.exp, !.q.CondVal = r.val]
      [] call.pc = "search" ->
            LET query == IF searchParam \in DOMAIN call.params /\ b.searcher
                         THEN LET s == parseSearch(c, call.params[searchParam])
                              IN  And(call.q, s.exp, s.vals)
                         ELSE call.q
            IN  [call EXCEPT !.pc = "done", !.q = query, !.ret = returnQuery(query)]

RECURSIVE parseFrom(_, _, _)
parseFrom(b, c, call) ==
    IF call.pc = "done" THEN call.ret ELSE parseFrom(b, c, parseStep(b, c, call))

\* b.Parse(values), its range over b.filterFields visiting the keys in the
\* order names.
Parse(b, c, values, names) == parseFrom(b, c, beginCall(b, c, values, names))

\* The requests of the concurrent calls.
ConcurrentRequests ==
    { <<>>,
      (<<"sort">> :> <<(<<"+", "name">>)>>) @@ (<<"limit">> :> <<(<<"7">>)>>),
      (<<"name">> :> <<(<<"a">>)>>) @@ (<<"age", "_", "gt">> :> <<(<<"1", "0">>)>>),
      (<<"tag_name">> :> <<(<<"a", ",", "b">>)>>) @@ (<<"search">> :> <<(<<"foo">>)>>),
      (<<"name">> :> <<(<<>>)>>) @@ (<<"age", "_", "gt">> :> <<(<<"x">>)>>) }

ConcurrentConfigs ==
    { [ZeroConfig(Struct(TestModel, TRUE)) EXCEPT !.DefaultSort = <<"name", " ", "desc">>],
      [ZeroConfig(Struct(TestModel, FALSE)) EXCEPT !.IgnoreSort = TRUE, !.ExplicitSelect = TRUE] }

\* Faulty variant of CallBegin: the offset of q starts at the number of calls
\* begun before on the Builder.
CallBeginCountsCalls(i) ==
    /\ status = "built"
    /\ calls[i].pc = "idle"
    /\ \E values \in ConcurrentRequests :
          \E names \in VisitOrders(builder, values) :
              calls' = [calls EXCEPT ![i] =
                          [beginCall(builder, config, values, names) EXCEPT
                              !.q.Offset = Cardinality({j \in DOMAIN calls : calls[j].pc # "idle"})]]
    /\ UNCHANGED <<config, builder, status, params, pc, q, ret, order, stages, keyExps, petStore>>

\* A goroutine calls b.Parse(values).
CallBegin(i) ==
    /\ status = "built"
    /\ calls[i].pc = "idle"
    /\ \E values \in ConcurrentRequests :
          \E names \in VisitOrders(builder, values) :
              calls' = [calls EXCEPT ![i] = beginCall(builder, config, values, names)]
    /\ UNCHANGED <<config, builder, status, params, pc, q, ret, order, stages, keyExps, petStore>>

\* Faulty variant of CallStep: the parsed sort is stored in the Builder's
\* Config.
CallStepStoresSort(i) ==
    /\ status = "built"
    /\ calls[i].pc \notin {"idle", "done"}
    /\ LET call == parseStep(builder, config, calls[i])
       IN  /\ calls' = [calls EXCEPT ![i] = call]
           /\ config' = [config EXCEPT !.DefaultSort = call.q.Sort]
    /\ UNCHANGED <<builder, status, params, pc, q, ret, order, stages, keyExps, petStore>>

\* The call of goroutine i runs its next block.
CallStep(i) ==
    /\ status = "built"
    /\ calls[i].pc \notin {"idle", "done"}
    /\ calls' = [calls EXCEPT ![i] = parseStep(builder, config, calls[i])]
    /\ UNCHANGED <<config, builder, status, params, pc, q, ret, order, stages, keyExps, petStore>>

InitConcurrent == InitWith(ConcurrentConfigs)

NextConcurrent ==
    \/ NewBuilder
    \/ \E i \in 1..MaxCalls : CallBegin(i)
    \/ \E i \in 1..MaxCalls : CallStep(i)

SpecConcurrent == InitConcurrent /\ [][NextConcurrent]_vars

\* The Config as NewBuilder leaves it, and the Builder it compiles from it.
CompiledConfig(c0) ==
    LET d == defaults(c0).c
    IN  IF d.OnlySelectNonDetailedFields THEN [d EXCEPT !.ExplicitSelect = TRUE] ELSE d

CompiledBuilder(c) == init([EmptyBuilder EXCEPT !.searcher = c.Model.searcher], c)

Done(i) == calls[i].pc = "done"

\* C23: while any number of Parse calls run on one compiled Builder, in any
\* interleaving, the sort-field set, the filter-field table, the select list
\* and the Config stay as NewBuilder left them, and each call returns what
\* Parse returns for its request when it runs alone (with the same visiting
\* order of the filter keys).
C23_ConcurrentCallsIndependent ==
    Compiled =>
        /\ \E c0 \in ConcurrentConfigs : config = CompiledConfig(c0)
        /\ builder = CompiledBuilder(config)
        /\ \A i \in DOMAIN calls :
              Done(i) => calls[i].ret = Parse(builder, config, calls[i].params, calls[i].order)

C23_Witness ==
    /\ Done(1) /\ ~calls[1].ret.nil
    /\ calls[2].pc = "filter"
    /\ calls[1].params # calls[2].params
    /\ calls[1].q.CondExp # <<>>
    /\ <<"sort">> \in DOMAIN calls[2].params


\* Two finished calls with the same request.
SameRequest(i, j) == Done(i) /\ Done(j) /\ calls[i].params = calls[j].params

\* The conjuncts of a filter expression, each with the values bound to its
\* placeholders.
RECURSIVE TermsFrom(_, _)
TermsFrom(conjuncts, values) ==
    IF conjuncts = <<>> THEN <<>>
    ELSE LET n == CountPlaceholders(Head(conjuncts))
         IN  <<[exp |-> Head(conjuncts), vals |-> SubSeq(values, 1, n)]>>
                 \o TermsFrom(Tail(conjuncts), SubSeq(values, n + 1, Len(values)))

TermsOf(query) == TermsFrom(Split(query.CondExp, " AND "), query.CondVal)

\* The same elements, each as often, in any order.
SameBag(s, t) ==
    /\ Len(s) = Len(t)
    /\ \A k \in 1..Len(s) :
          Cardinality({n \in 1..Len(s) : s[n] = s[k]}) = Cardinality({n \in 1..Len(t) : t[n] = s[k]})

FilterErrors(values) ==
    {ParseError(<<"invalid parameter for key '">> \o name \o <<"'">>) :
        name \in DOMAIN builder.filterFields \cap DOMAIN values}

\* C24 as stated: two Parse calls on one Builder with the same request
\* return the same error, or descriptors equal in every field.
C24_SameRequestSameOutcome ==
    \A i, j \in DOMAIN calls : SameRequest(i, j) => calls[i].ret = calls[j].ret

\* C24 amended: two Parse calls on one Builder with the same request both
\* fail or both succeed; when they succeed the descriptors have equal Limit,
\* Offset, Sort and Select, and filter expressions with the same conjuncts,
\* each with the same bound values, in an order that may differ between the
\* calls; when they fail, the errors are equal or are filter errors that
\* name two keys of the request.
C24_SameOutcomeUpToConjunctOrder ==
    \A i, j \in DOMAIN calls :
        SameRequest(i, j) =>
            LET a == calls[i].ret
                b == calls[j].ret
            IN  /\ a.nil = b.nil
                /\ ~a.nil =>
                      /\ a.err.nil /\ b.err.nil
                      /\ a.q.Limit = b.q.Limit /\ a.q.Offset = b.q.Offset
                      /\ a.q.Sort = b.q.Sort /\ a.q.Select = b.q.Select
                      /\ SameBag(TermsOf(a.q), TermsOf(b.q))
                      /\ Len(a.q.CondVal) = Len(b.q.CondVal)
                /\ a.nil =>
                      \/ a.err = b.err
                      \/ {a.err, b.err} \subseteq FilterErrors(calls[i].params)

C24_Witness ==
    /\ SameRequest(1, 2)
    /\ calls[1].ret.q.CondExp = <<"name", " = ", "?", " AND ", "age", " > ", "?">>
    /\ calls[2].ret.q.CondExp = <<"age", " > ", "?", " AND ", "name", " = ", "?">>
    /\ calls[1].ret.q.CondVal[1] = calls[2].ret.q.CondVal[2]


\* C25: with IgnoreSort set the sort parameter is neither parsed nor
\* validated: whatever the request holds, also empty or unknown sort tokens,
\* the sort stage raises no error and every returned Sort is DefaultSort.
C25_IgnoreSortSkipsSort ==
    (status = "built" /\ config.IgnoreSort) =>
        /\ ~Failed("sort")
        /\ "sort" \in Range(stages) => q.Sort = config.DefaultSort
        /\ Returned => ret.q.Sort = config.DefaultSort
        /\ (pc = "done" /\ ~LimitInvalid /\ ~OffsetInvalid /\ InvalidKeys = {}) => Returned

C25_Witness ==
    /\ Returned
    /\ config.IgnoreSort
    /\ config.DefaultSort = <<"name">>
    /\ config.SortParam \in DOMAIN params
    /\ SortTokens = <<(<<"name">>), (<<>>)>>
    /\ ret.q.Sort = <<"name">>


\* C26: every descriptor Parse returns has 0 <= Limit, and Limit <=
\* LimitMaxValue when a maximum is configured (LimitMaxValue # -1), whether
\* the limit is the request's or the configured DefaultLimit.
C26_ReturnedLimitWithinBounds ==
    Returned =>
        /\ 0 <= ret.q.Limit
        /\ config.LimitMaxValue # -1 => ret.q.Limit <= config.LimitMaxValue


\* The request without the keys Parse does not recognize.
Recognized(values) == [k \in DOMAIN values \cap RecognizedKeys |-> values[k]]

\* C27: the keys of a request that are neither compiled filter keys nor the
\* limit, offset, sort or search parameter have no effect: the call returns
\* what Parse returns for the request without them, and a request that is
\* valid without them is not an error with them.
C27_UnrecognizedKeysIgnored ==
    (pc = "done" /\ status = "built") =>
        /\ ret = Parse(builder, config, Recognized(params), order)
        /\ (~LimitInvalid /\ ~OffsetInvalid /\ ~SortInvalid /\ InvalidKeys = {}) => Returned

C27_Witness ==
    /\ Returned
    /\ DOMAIN params = {<<"name", "_", "gt">>, <<"name">>}
    /\ params[<<"name">>] = <<(<<"a">>)>>
    /\ ret.q.CondExp = <<"name", " = ", "?">>
    /\ Len(ret.q.CondVal) = 1


(***************************************************************************)
(* example/internal/pet: the in-memory pet store.  Every handler holds     *)
(* p.lock for its whole body, so each is one step.                         *)
(***************************************************************************)
\* The pets of the requests (params.Pet) and the IDs of the paths
\* (params.PetID).
PetIDs == 0..MaxPets

PetNames == {"rex", "tom"}

RequestPets == [ID : 0..(MaxPets - 1), Name : PetNames]

Response(code, model) == [code |-> code, ID |-> model.ID, Name |-> model.Name]

NoPayload == [ID |-> 0, Name |-> ""]

PetCreate ==
    /\ petStore.count < MaxPets
    /\ \E pet \in RequestPets :
          LET model == [pet EXCEPT !.ID = petStore.count]
          IN  petStore' = [petStore EXCEPT
                  !.count = @ + 1,
                  !.data = (pet.ID :> model) @@ @,
                  !.created = @ \cup {model.ID},
                  !.resp = Response("PetCreateCreated", model)]
    /\ UNCHANGED <<config, builder, status, params, pc, q, ret, order, stages, keyExps, calls>>

PetDelete ==
    /\ \E PetID \in PetIDs :
          IF PetID \notin DOMAIN petStore.data
          THEN petStore' = [petStore EXCEPT !.resp = Response("PetDeleteNotFound", NoPayload)]
          ELSE petStore' = [petStore EXCEPT
                  !.data = [k \in DOMAIN @ \ {PetID} |-> @[k]],
                  !.deleted = @ \cup {PetID},
                  !.resp = Response("PetDeleteNoContent", NoPayload)]
    /\ UNCHANGED <<config, builder, status, params, pc, q, ret, order, stages, keyExps, calls>>

\* The response of PetGet for an ID.
PetGetResponse(data, PetID) ==
    IF PetID \notin DOMAIN data THEN Response("PetGetNotFound", NoPayload)
    ELSE Response("PetGetOK", data[PetID])

PetGet ==
    /\ \E PetID \in PetIDs :
          petStore' = [petStore EXCEPT !.resp = PetGetResponse(petStore.data, PetID)]
    /\ UNCHANGED <<config, builder, status, params, pc, q, ret, order, stages, keyExps, calls>>

PetUpdate ==
    /\ \E PetID \in PetIDs, pet \in RequestPets :
          IF PetID \notin DOMAIN petStore.data
          THEN petStore' = [petStore EXCEPT !.resp = Response("PetDeleteNotFound", NoPayload)]
          ELSE LET model == [pet EXCEPT !.ID = PetID]
               IN  petStore' = [petStore EXCEPT
                       !.data = (PetID :> model) @@ @,
                       !.resp = Response("PetUpdateCreated", model)]
    /\ UNCHANGED <<config, builder, status, params, pc, q, ret, order, stages, keyExps, calls>>

InitPet == InitWith({ZeroConfig(NilModel)})

NextPet == PetCreate \/ PetDelete \/ PetGet \/ PetUpdate

SpecPet == InitPet /\ [][NextPet]_vars

\* C28: a pet PetCreate returned with ID i and that was not deleted since is
\* what PetGet(i) returns; every entry of the store is kept under the ID
\* recorded in the stored pet; PetCreate hands out each ID once.
C28_CreatedPetRetrievable ==
    /\ \A i \in petStore.created \ petStore.deleted :
          /\ PetGetResponse(petStore.data, i).code = "PetGetOK"
          /\ PetGetResponse(petStore.data, i).ID = i
    /\ \A k \in DOMAIN petStore.data : petStore.data[k].ID = k
    /\ petStore.created = 0..(petStore.count - 1)

====
